---- MODULE Spec2Model ----
(***************************************************************************)
(* Environment simulation and multi-pass compositor of the Graphic scene   *)
(* renderer: the time-of-day clock, the sun model, the particle emitter,   *)
(* the heightfield terrain and the frame loop of main().                   *)
(*                                                                         *)
(* Numbers.  The program computes in IEEE binary32.  The model computes   *)
(* in a binary floating-point format of the same shape and smaller size:  *)
(* a value is an integer count of units of 2^-FracBits, and every         *)
(* arithmetic result is rounded to nearest, ties to even, to SigBits      *)
(* significant bits (binary32 has 24).  Every rounding effect of the      *)
(* model is a rounding effect of binary32 at a smaller scale.             *)
(***************************************************************************)
EXTENDS Integers, Sequences, FiniteSets, TLC

(***************************************************************************)
(* Bounds of the model.                                                    *)
(***************************************************************************)
\* significant bits of a float of the model
SigBits == 8
\* fractional bits of the unit of a float of the model
FracBits == 7
\* largest time step the clock is driven with, in steps of dayLength/2^FracBits
MaxDtSteps == 3
\* the floor of the particle capacity (init() takes max(64, maxParticles));
\* the model runs the emitter at this scale of the floor
MinParticles == 3
\* largest maxParticles argument above the floor that init() is called with
MaxExtraParticles == 1
\* number of particles spawned in one run of the emitter
MaxSpawns == 7
\* largest number of vertices along one side of a Terrain
MaxVerts == 3
\* width of an int in the float-to-int conversions of Terrain::GetHeight
IntBits == 12

(***************************************************************************)
(* Floating point.                                                         *)
(***************************************************************************)
Pow2(k) == 2 ^ k

Unit == Pow2(FracBits)

Abs(n) == IF n < 0 THEN -n ELSE n

Min(a, b) == IF a < b THEN a ELSE b

Max(a, b) == IF a > b THEN a ELSE b

\* num/den (den > 0, num >= 0) rounded to the nearest integer, ties to even
RoundHalfEven(num, den) ==
    LET q == num \div den
        r == num % den
    IN  IF 2 * r < den THEN q
        ELSE IF 2 * r > den THEN q + 1
        ELSE IF q % 2 = 0 THEN q ELSE q + 1

\* the exponent at which num/den has at most SigBits significant bits
RECURSIVE FExp(_, _, _)
FExp(num, den, e) ==
    IF num < den * Pow2(SigBits + e) THEN e ELSE FExp(num, den, e + 1)

\* the float nearest to the rational num/den units (den > 0)
FRound(num, den) ==
    LET a == Abs(num)
        e == FExp(a, den, 0)
        m == IF e = 0 THEN RoundHalfEven(a, den)
             ELSE RoundHalfEven(a, den * Pow2(e)) * Pow2(e)
    IN  IF num < 0 THEN -m ELSE m

\* the float of the decimal literal num/den
FLit(num, den) == FRound(num * Unit, den)

FAdd(a, b) == FRound(a + b, 1)

FSub(a, b) == FRound(a - b, 1)

FMul(a, b) == FRound(a * b, Unit)

FDiv(a, b) == IF b > 0 THEN FRound(a * Unit, b) ELSE FRound(-(a * Unit), -b)

\* (float)i of an int
IntToFloat(i) == FRound(i * Unit, 1)

\* std::floor of a float, as an integer
FFloor(a) == a \div Unit

\* the integer square root of n, by bisection: lo * lo <= n < hi * hi
RECURSIVE ISqrt(_, _, _)
ISqrt(n, lo, hi) ==
    IF hi - lo <= 1 THEN lo
    ELSE LET mid == (lo + hi) \div 2
         IN  IF mid * mid <= n THEN ISqrt(n, mid, hi) ELSE ISqrt(n, lo, mid)

\* std::sqrt of a float v >= 0
FSqrt(v) ==
    LET n == v * Unit
        s == ISqrt(n, 0, Min(n + 1, Pow2(15)))
    IN  FRound(IF n - s * s > s THEN s + 1 ELSE s, 1)

\* pi and 2 pi as floats (glm::two_pi<float>())
Pi == FLit(355, 113)

TwoPi == FLit(710, 113)

\* std::sin of a float: the rational approximation
\* sin x = 16 x (pi - x) / (5 pi^2 - 4 x (pi - x)) on [0, pi], odd and periodic
SinHalfWave(x) ==
    FRound(16 * x * (Pi - x) * Unit, 5 * Pi * Pi - 4 * x * (Pi - x))

FSin(a) ==
    LET r == a % (2 * Pi)
    IN  IF r <= Pi THEN SinHalfWave(r) ELSE -SinHalfWave(r - Pi)

\* std::cos of a float
FCos(a) == FSin(a + (Pi \div 2))

\* glm::length of a vec3
Length3(v) ==
    FSqrt(FAdd(FAdd(FMul(v[1], v[1]), FMul(v[2], v[2])), FMul(v[3], v[3])))

\* a vec3 divided by a float
Div3(v, len) == << FDiv(v[1], len), FDiv(v[2], len), FDiv(v[3], len) >>

\* glm::clamp
FClamp(x, lo, hi) == Min(Max(x, lo), hi)

(***************************************************************************)
(* State.                                                                  *)
(***************************************************************************)
VARIABLES
    m_time01,       \* TimeOfDay::m_time01, a float
    dayPhase,       \* history: the seconds into the day, exactly: the start time
                    \* plus every dt given to TimeOfDay::update, modulo the day
    m_particles,    \* ParticleSystem::m_particles, the live set, in vector order
    m_maxParticles, \* ParticleSystem::m_maxParticles
    m_flameAcc,     \* ParticleSystem::m_flameAcc
    m_emberAcc,     \* ParticleSystem::m_emberAcc
    m_glowAcc,      \* ParticleSystem::m_glowAcc
    emitRate,       \* flameEmitRate, emberEmitRate, glowEmitRate
    spawnCount,     \* history: number of spawn() calls so far
    evictions,      \* history: the capacity evictions of the last update()
    lastDt,         \* history: the clamped dt of the last update() that ran, 0 if none
    emitted,        \* history: the spawn() calls of each kind since init()
    emitDue,        \* history: the sum of rate * dt of each kind since init(), with
                    \* no rounding, in units of 1 / (Unit * Unit) particles
    terrain,        \* the Terrain objects: fields of each
    lastBuild,      \* history: the arguments of the last Build() of each Terrain
    lastQuery,      \* the Terrain call in progress: its result, its m_heights reads,
                    \* whether an argument was beyond the range of int, whether
                    \* the four heights GetNormal sampled were equal
    pc,             \* main(): the next step of the program
    frameDt,        \* main(): dt of the frame
    camera,         \* main(): the camera, its position, pivot and orbit parameters
    proj,           \* main(): proj, the projection matrix of the frame
    m_light,        \* Sun::m_light
    gl,             \* the OpenGL context: framebuffer binding, viewport, GL_CLIP_DISTANCE0
    uClipPlane,     \* the uniform uClipPlane of each shader program
    water,          \* Water: m_reflectFBO, m_fboW, m_fboH and the attachments
    fb,             \* main(): g_fbW, g_fbH, lastFbW, lastFbH
    boatLoaded,     \* whether Model::loadFromGLB loaded the boat
    assets,         \* the asset files as main() finds them: ok, missing or malformed
    loaded,         \* main(): texRocky and texSand, Sky::m_ready
    fireGpu,        \* whether ParticleSystem::m_gpu of the campfire holds instances
    frameLog,       \* history: the passes and draws of the frame, in order
    player,         \* Player: whether m_playerRoot is set, and m_position
    moved,          \* history: on which side of the bounds m_position.x and .z of
                    \* the last Player::update were before they were clamped
                    \* (-1 below, 0 inside, 1 above), << >> if there was none
    sunProbe,       \* a sweep of Sun::update over direction.y: the last y, its
                    \* m_light and the highest intensity of the lower y (0 if
                    \* there was none), << >> before the sweep
    m_gpu,          \* ParticleSystem::m_gpu, the instance records, in vector order
    m_timeNow,      \* ParticleSystem::m_timeNow
    m_vboInst,      \* ParticleSystem::m_vboInst: the name (0 if there is none) of the
                    \* buffer object, the number of records it was allocated for
                    \* and the records of the last upload
    m_vao,          \* ParticleSystem::m_vao: 0, or the name of the vertex array
    glCaps,         \* the OpenGL context: whether GL_BLEND, GL_DEPTH_TEST and
                    \* GL_CULL_FACE are enabled
    drawn,          \* history: the last glDrawArraysInstanced of
                    \* ParticleSystem::render since update() last built m_gpu:
                    \* its instance count and the records it read
    lastCall,       \* history: the last call of a ParticleSystem member that the
                    \* caller logged, with its arguments
    m_scrollY,      \* Input::m_scrollY, a double
    pendingScroll,  \* history: the yoffsets GLFW delivered to Input::ScrollCallback
                    \* since the last consumeScrollY(), in order
    lastConsume,    \* history: the last consumeScrollY(): the value it returned
                    \* and the yoffsets delivered since the consume before it
    transforms,     \* the Transform objects: m_parent (0 for nullptr), m_children,
                    \* the local matrix, m_dirty and m_world of each
    lastRead        \* history: the last worldMatrix() call since the last change
                    \* of a Transform: the node and the matrix returned

timeVars == << m_time01, dayPhase >>

particleVars == << m_particles, m_maxParticles, m_flameAcc, m_emberAcc, m_glowAcc,
                   emitRate, spawnCount, evictions, lastDt, emitted, emitDue >>

terrainVars == << terrain, lastBuild, lastQuery >>

frameVars == << pc, frameDt, camera, proj, m_light, gl, uClipPlane, water, fb, boatLoaded,
               assets, loaded, fireGpu, frameLog >>

playerVars == << player, moved >>

renderVars == << m_gpu, m_timeNow, m_vboInst, m_vao, glCaps, drawn, lastCall >>

inputVars == << m_scrollY, pendingScroll, lastConsume >>

transformVars == << transforms, lastRead >>

vars == << timeVars, particleVars, terrainVars, frameVars, playerVars, sunProbe,
          renderVars, inputVars, transformVars >>

(***************************************************************************)
(* TimeOfDay                                                               *)
(***************************************************************************)
dayLengthSeconds == FLit(30, 1)

\* the value of m_time01 after TimeOfDay::update(dt)
TimeOfDayUpdate(t, dt) ==
    LET s == FAdd(t, FDiv(dt, dayLengthSeconds))
    IN  IF s > FLit(1, 1) THEN FSub(s, FLit(1, 1)) ELSE s

\* the time steps the clock is driven with: k times the step that advances
\* the clock by one unit, one whole day and two whole days
DtValues ==
    { FRound(30 * k, 1) : k \in 0..MaxDtSteps } \cup { FLit(30, 1), FLit(60, 1) }

\* history: the seconds into the day after dt more seconds, with no rounding
PhaseAfter(phase, dt) == (phase + dt) % dayLengthSeconds

\* float m_time01 = 0.25f
InitTime ==
    /\ m_time01 = FLit(25, 100)
    /\ dayPhase = PhaseAfter(0, FMul(FLit(25, 100), dayLengthSeconds))

TimeUpdate(dt) ==
    /\ m_time01' = TimeOfDayUpdate(m_time01, dt)
    /\ dayPhase' = PhaseAfter(dayPhase, dt)
    /\ UNCHANGED << particleVars, renderVars, terrainVars, frameVars, inputVars, transformVars, playerVars, sunProbe >>

(***************************************************************************)
(* Sun                                                                     *)
(***************************************************************************)
\* glm::mix(a, b, t) = a * (1 - t) + b * t
FMix(a, b, t) == FAdd(FMul(a, FSub(FLit(1, 1), t)), FMul(b, t))

\* glm::normalize of a vec3
Normalize3(v) == Div3(v, Length3(v))

Sq(x) == FMul(x, x)

\* a day factor that is not clamped
SunDayUnclamped(sunY) == Sq(FDiv(FSub(sunY, FLit(2, 100)), FLit(35, 100)))

\* day = clamp((sunY - 0.02f) / 0.35f, 0, 1), squared
SunDay(sunY) ==
    Sq(FClamp(FDiv(FSub(sunY, FLit(2, 100)), FLit(35, 100)), 0, FLit(1, 1)))

\* horizon = 1 - clamp(abs(sunY) / 0.25f, 0, 1), squared
SunHorizon(sunY) ==
    Sq(FSub(FLit(1, 1), FClamp(FDiv(Abs(sunY), FLit(25, 100)), 0, FLit(1, 1))))

\* glm::mix(noon, dusk, w)
SunColor(w) ==
    << FMix(FLit(1, 1), FLit(1, 1), w), FMix(FLit(97, 100), FLit(45, 100), w),
       FMix(FLit(92, 100), FLit(20, 100), w) >>

\* m_light for the direction dir
SunOfDirection(dir) ==
    [ direction |-> dir,
      color     |-> SunColor(FMul(FLit(75, 100), SunHorizon(dir[2]))),
      intensity |-> FAdd(FLit(1, 10), FMul(FLit(22, 10), SunDay(dir[2]))) ]

\* m_light for the angle of the sun
SunOfAngle(angle) ==
    SunOfDirection(Normalize3(<< FCos(angle), FSin(angle), FSin(angle) >>))

\* m_light after Sun::update(time) with time.normalizedTime() = t
SunUpdate(t) == SunOfAngle(FMul(FSub(t, FLit(25, 100)), TwoPi))

\* the sweep at direction.y = y, after the intensities up to highest
SunProbeAt(y, highest) ==
    [ y |-> y, light |-> SunOfDirection(<< 0, y, 0 >>), highest |-> highest ]

InitSunProbe == sunProbe = << >>

\* the sweep starts at direction.y = -1
SunProbeFirst ==
    /\ sunProbe = << >>
    /\ sunProbe' = SunProbeAt(FLit(-1, 1), 0)
    /\ UNCHANGED << timeVars, particleVars, renderVars, terrainVars, frameVars, inputVars, transformVars, playerVars >>

\* the sweep goes on to the next float above y, up to direction.y = 1; below
\* 1 the floats of the model are one unit apart
SunProbeNext ==
    /\ sunProbe # << >>
    /\ sunProbe.y < FLit(1, 1)
    /\ sunProbe' = SunProbeAt(sunProbe.y + 1, Max(sunProbe.highest, sunProbe.light.intensity))
    /\ UNCHANGED << timeVars, particleVars, renderVars, terrainVars, frameVars, inputVars, transformVars, playerVars >>

(***************************************************************************)
(* ParticleSystem                                                          *)
(*                                                                         *)
(* A particle is [id, kind, seed, life, life0]; id is the history number   *)
(* of the spawn() call that made it.  Position, velocity and size decide   *)
(* nothing about membership of the live set and are left out.  A draw of   *)
(* spawn() is [seed, life]: the draws of m_u01 behind p.seed and p.life0.  *)
(***************************************************************************)
\* m_u01(m_rng): the draws of the uniform distribution on [0,1) that the model takes
U01Values == { 0, FLit(1, 2) }

\* the draws of one spawn() that the model takes: those behind p.seed and
\* p.life0 are both low or both high
PairedDraws == { [ seed |-> u, life |-> u ] : u \in U01Values }

\* ParticleSystem::randf(a, b) with the draw u
randf(a, b, u) == FAdd(a, FMul(FSub(b, a), u))

\* p.life0 of a new particle of the kind, with the draw u
SpawnLife0(kind, u) ==
    IF kind = "Flame" THEN randf(FLit(55, 100), FLit(105, 100), u)
    ELSE IF kind = "Ember" THEN randf(FLit(1, 1), FLit(22, 10), u)
    ELSE randf(FLit(18, 100), FLit(30, 100), u)

\* SpawnLife0, tabulated
Life0Table ==
    [ kind \in { "Flame", "Ember", "Glow" }, u \in U01Values |-> SpawnLife0(kind, u) ]
    @@ << >>

\* the particle that spawn(kind) pushes as the n-th spawn, with the draw u
NewParticle(n, kind, u) ==
    [ id |-> n, kind |-> kind, seed |-> randf(0, Unit, u.seed),
      life |-> Life0Table[kind, u.life], life0 |-> Life0Table[kind, u.life] ]

\* the smallest id among the particles of ps (ps not empty)
OldestId(ps) ==
    CHOOSE i \in { ps[k].id : k \in 1..Len(ps) } :
        \A k \in 1..Len(ps) : i <= ps[k].id

\* ParticleSystem::spawn(kind) on the state st = [ps, n, ev]: the live set,
\* the number of spawns so far and the evictions so far
SpawnNoEvict(st, cap, kind, u) ==
    [ ps |-> Append(st.ps, NewParticle(st.n + 1, kind, u)),
      n  |-> st.n + 1,
      ev |-> st.ev ]

\* a spawn() that at capacity drops the last particle of the vector
SpawnEvictLast(st, cap, kind, u) ==
    LET full == Len(st.ps) >= cap
        kept == IF full THEN SubSeq(st.ps, 1, Len(st.ps) - 1) ELSE st.ps
        p    == NewParticle(st.n + 1, kind, u)
    IN  [ ps |-> Append(kept, p),
          n  |-> st.n + 1,
          ev |-> IF full
                 THEN st.ev \cup { [ victim |-> st.ps[Len(st.ps)].id,
                                     oldest |-> OldestId(st.ps),
                                     newest |-> st.n ] }
                 ELSE st.ev ]

\* ParticleSystem::spawn(kind).  m_particles.erase(m_particles.begin()) of an
\* empty vector is undefined: an eviction with victim 0 records it, and Spawn
\* goes on as the build in which erase() moves the end of the vector one
\* below its begin and push_back() moves it back, the particle written
\* outside the vector
Spawn(st, cap, kind, u) ==
    LET full == Len(st.ps) >= cap
        kept == IF full /\ st.ps # << >> THEN Tail(st.ps) ELSE st.ps
        p    == NewParticle(st.n + 1, kind, u)
    IN  [ ps |-> IF full /\ st.ps = << >> THEN << >> ELSE Append(kept, p),
          n  |-> st.n + 1,
          ev |-> IF full
                 THEN st.ev \cup { IF st.ps = << >>
                                   THEN [ victim |-> 0, oldest |-> 0, newest |-> st.n ]
                                   ELSE [ victim |-> st.ps[1].id,
                                          oldest |-> OldestId(st.ps),
                                          newest |-> st.n ] }
                 ELSE st.ev ]

\* the spawn loops of update(): kinds[k] is the kind of the k-th spawn and
\* draws[k] its draw
RECURSIVE SpawnAll(_, _, _, _, _)
SpawnAll(st, cap, kinds, draws, k) ==
    IF k > Len(kinds) THEN st
    ELSE SpawnAll(Spawn(st, cap, kinds[k], draws[k]), cap, kinds, draws, k + 1)

\* n copies of x (none when n <= 0)
Repeat(x, n) == IF n <= 0 THEN << >> ELSE [ k \in 1..n |-> x ]

\* an integrate loop that, after moving the last particle into the slot of a
\* dead one, processes that slot again
RECURSIVE IntegrateReprocess(_, _, _)
IntegrateReprocess(ps, i, dt) ==
    IF i < 1 THEN ps
    ELSE LET life == FSub(ps[i].life, dt)
         IN  IF life <= 0
             THEN IntegrateReprocess(SubSeq([ ps EXCEPT ![i] = ps[Len(ps)] ], 1, Len(ps) - 1),
                                     Min(i, Len(ps) - 1), dt)
             ELSE IntegrateReprocess([ ps EXCEPT ![i].life = life ], i - 1, dt)

\* the integrate loop of update(): i runs from size-1 down to 0 (here from
\* Len(ps) down to 1); a dead particle is overwritten by the last one, which
\* is then popped
RECURSIVE Integrate(_, _, _)
Integrate(ps, i, dt) ==
    IF i < 1 THEN ps
    ELSE LET life == FSub(ps[i].life, dt)
         IN  IF life <= 0
             THEN Integrate(SubSeq([ ps EXCEPT ![i] = ps[Len(ps)] ], 1, Len(ps) - 1),
                            i - 1, dt)
             ELSE Integrate([ ps EXCEPT ![i].life = life ], i - 1, dt)

\* the accumulator after adding dt * rate, and the number of spawns it gives
AccAfter(acc, dt, rate) == FAdd(acc, FMul(dt, rate))

\* (float)((int)p.kind): enum class Kind { Flame = 0, Ember = 1, Glow = 2 }
KindIndex(kind) ==
    IF kind = "Flame" THEN 0 ELSE IF kind = "Ember" THEN Unit ELSE 2 * Unit

\* saturate(x): clamp to [0, 1]
saturate(x) == Max(0, Min(x, Unit))

\* the ParticleGPU record of the particle p: ageSeedKind without its padding;
\* posSize is left out as the position and the size are
GpuOf(p) ==
    [ age01 |-> saturate(FSub(Unit, FDiv(p.life, p.life0))),
      seed  |-> p.seed,
      kind  |-> KindIndex(p.kind) ]

\* a GPU list that holds the records in the reverse of the vector order
BuildGpuReversed(ps) == [ k \in 1..Len(ps) |-> GpuOf(ps[Len(ps) + 1 - k]) ]

\* "Build GPU list" of update(): m_gpu.clear(), then one record per particle
BuildGpu(ps) == [ k \in 1..Len(ps) |-> GpuOf(ps[k]) ]

\* what a draw reads from a record of the buffer that the last upload did not
\* write: contents of an earlier upload or none, never a record of m_gpu
UndefinedRecord == [ age01 |-> -1, seed |-> -1, kind |-> -1 ]

\* "Upload instance buffer" of update(): glBufferSubData at offset 0 of the
\* records of gpu into the buffer bound after glBindBuffer(m_vboInst).  With
\* m_vboInst = 0 no buffer is bound and with more records than the buffer
\* holds the range is invalid: OpenGL reports an error and writes nothing.
\* The model keeps the records of the last upload only.
Upload(buf, gpu) ==
    IF gpu = << >> \/ buf.name = 0 THEN buf
    ELSE IF Len(gpu) > buf.capacity THEN buf
    ELSE [ buf EXCEPT !.data = gpu ]

\* the instance records a draw of count instances reads from the buffer
ReadInstances(buf, count) ==
    [ k \in 1..count |-> IF k <= Len(buf.data) THEN buf.data[k] ELSE UndefinedRecord ]

\* m_vboInst = 0: no buffer object
NoBuffer == [ name |-> 0, capacity |-> 0, data |-> << >> ]

\* render() made no draw since update() last built m_gpu
NoDraw == [ count |-> 0, read |-> << >> ]

\* no call was logged
NoCall == [ op |-> "none", dt |-> 0, now |-> 0, maxParticles |-> 0 ]

\* ParticleSystem::ParticleSystem(): the members' default initialisers
InitParticles ==
    /\ m_particles = << >>
    /\ m_maxParticles = 0
    /\ m_flameAcc = 0
    /\ m_emberAcc = 0
    /\ m_glowAcc = 0
    /\ emitRate = << FLit(140, 1), FLit(22, 1), FLit(7, 1) >>
    /\ spawnCount = 0
    /\ evictions = {}
    /\ lastDt = 0
    /\ emitted = << 0, 0, 0 >>
    /\ emitDue = << 0, 0, 0 >>
    /\ m_gpu = << >>
    /\ m_timeNow = 0
    /\ m_vboInst = NoBuffer
    /\ m_vao = 0
    /\ glCaps = [ blend |-> FALSE, depth |-> FALSE, cull |-> FALSE ]
    /\ drawn = NoDraw
    /\ lastCall = NoCall

\* the histories of the emitter start again
ResetEmitterHistory ==
    /\ spawnCount' = 0
    /\ evictions' = {}
    /\ lastDt' = 0
    /\ emitted' = << 0, 0, 0 >>
    /\ emitDue' = << 0, 0, 0 >>

\* ParticleSystem::shutdown()
ParticleShutdownOf ==
    /\ m_vboInst' = NoBuffer
    /\ m_vao' = 0
    /\ m_particles' = << >>
    /\ m_gpu' = << >>
    /\ m_maxParticles' = 0
    /\ m_flameAcc' = 0
    /\ m_emberAcc' = 0
    /\ m_glowAcc' = 0
    /\ m_timeNow' = 0
    /\ ResetEmitterHistory
    /\ drawn' = NoDraw
    /\ UNCHANGED << emitRate, glCaps, timeVars, terrainVars, frameVars, inputVars, transformVars,
                    playerVars, sunProbe >>

\* an init() that takes maxParticles as it is
CapacityAsGiven(maxParticles) == maxParticles

\* m_maxParticles = std::max(64, maxParticles), the 64 at the scale of the model
EffectiveCapacity(maxParticles) == Max(MinParticles, maxParticles)

\* ParticleSystem::init(vs, fs, maxParticles): shutdown() runs first, then the
\* capacity is set, the vertex array is made and the instance buffer is
\* allocated with glBufferData(sizeof(ParticleGPU) * m_maxParticles, nullptr)
ParticleInitOf(maxParticles) ==
    /\ m_particles' = << >>
    /\ m_gpu' = << >>
    /\ m_flameAcc' = 0
    /\ m_emberAcc' = 0
    /\ m_glowAcc' = 0
    /\ m_timeNow' = 0
    /\ m_maxParticles' = EffectiveCapacity(maxParticles)
    /\ m_vao' = 1
    /\ m_vboInst' = [ name |-> 1, capacity |-> m_maxParticles', data |-> << >> ]
    /\ ResetEmitterHistory
    /\ drawn' = NoDraw
    /\ UNCHANGED << emitRate, glCaps, timeVars, terrainVars, frameVars, inputVars, transformVars,
                    playerVars, sunProbe >>

ParticleInit(maxParticles) ==
    /\ ParticleInitOf(maxParticles)
    /\ UNCHANGED lastCall

\* the caller sets the public tunables flameEmitRate, emberEmitRate, glowEmitRate
RateConfigs ==
    { << 0, 0, FLit(32, 1) >>, << 0, FLit(-32, 1), 0 >>, << 0, 0, 0 >> }

SetEmitRates(f, e, g) ==
    /\ emitRate' = << f, e, g >>
    /\ UNCHANGED << m_particles, m_maxParticles, m_flameAcc, m_emberAcc, m_glowAcc,
                    spawnCount, evictions, lastDt, emitted, emitDue, timeVars,
                    terrainVars, frameVars, inputVars, transformVars, playerVars, sunProbe, renderVars >>

\* dt = std::min(dt, 0.05f)
MaxStep == FLit(5, 100)

\* an update() that takes dt as it is
ClampDtNone(dt) == dt

ClampDt(dt) == Min(dt, MaxStep)

\* an update() that returns early only on a negative dt
UpdateReturnsOnNegative(dt) == dt < 0

\* if (dt <= 0.f) return;
UpdateReturns(dt) == dt <= 0

\* the kinds of the spawn() calls of update() with the clamped dt d, in call
\* order: nFlame of Flame, nEmber of Ember, nGlow of Glow
SpawnKinds(d) ==
    Repeat("Flame", FFloor(AccAfter(m_flameAcc, d, emitRate[1])))
        \o Repeat("Ember", FFloor(AccAfter(m_emberAcc, d, emitRate[2])))
        \o Repeat("Glow", FFloor(AccAfter(m_glowAcc, d, emitRate[3])))

\* update() after its spawn loops, which left the live set, the spawn count
\* and the evictions of st: the integrate loop, the GPU list and the upload
UpdateAfterSpawns(st, d) ==
    /\ m_particles' = Integrate(st.ps, Len(st.ps), d)
    /\ spawnCount' = st.n
    /\ evictions' = st.ev
    /\ m_gpu' = BuildGpu(m_particles')
    /\ m_vboInst' = Upload(m_vboInst, m_gpu')

\* update() past its early return, with the clamped dt d
UpdateStep(d, now, drawSet) ==
    LET fa    == AccAfter(m_flameAcc, d, emitRate[1])
        ea    == AccAfter(m_emberAcc, d, emitRate[2])
        ga    == AccAfter(m_glowAcc, d, emitRate[3])
        nF    == FFloor(fa)
        nE    == FFloor(ea)
        nG    == FFloor(ga)
        kinds == Repeat("Flame", nF) \o Repeat("Ember", nE) \o Repeat("Glow", nG)
    IN  /\ spawnCount + Len(kinds) <= MaxSpawns
        /\ lastDt' = d
        /\ drawn' = NoDraw
        /\ m_timeNow' = now
        /\ emitted' = << emitted[1] + Max(nF, 0), emitted[2] + Max(nE, 0),
                        emitted[3] + Max(nG, 0) >>
        /\ emitDue' = [ k \in 1..3 |-> emitDue[k] + d * emitRate[k] ]
        /\ \A k \in 1..3 : emitDue'[k] >= -(MaxSpawns * Unit * Unit)
        /\ m_flameAcc' = FSub(fa, IntToFloat(nF))
        /\ m_emberAcc' = FSub(ea, IntToFloat(nE))
        /\ m_glowAcc' = FSub(ga, IntToFloat(nG))
        /\ \E draws \in [ 1..Len(kinds) -> drawSet ] :
             UpdateAfterSpawns(SpawnAll([ ps |-> m_particles, n |-> spawnCount, ev |-> {} ],
                                        m_maxParticles, kinds, draws, 1), d)

\* ParticleSystem::update(dt, now), with the draws of its spawns from drawSet
ParticleUpdateOf(dt, now, drawSet) ==
    /\ IF UpdateReturns(dt)
       THEN UNCHANGED << m_particles, m_flameAcc, m_emberAcc, m_glowAcc,
                         spawnCount, evictions, lastDt, emitted, emitDue,
                         m_gpu, m_timeNow, m_vboInst, drawn >>
       ELSE UpdateStep(ClampDt(dt), now, drawSet)
    /\ UNCHANGED << m_maxParticles, emitRate, m_vao, glCaps, timeVars,
                    terrainVars, frameVars, inputVars, transformVars, playerVars, sunProbe >>

\* ParticleSystem::update(dt, now), called as main() calls it, after init();
\* the clock of the caller stands at 0
ParticleUpdate(dt) ==
    /\ m_maxParticles > 0
    /\ ParticleUpdateOf(dt, 0, PairedDraws)
    /\ UNCHANGED lastCall

\* the time steps update() is called with
ParticleDtValues == { FLit(-1, 1), 0, FLit(5, 100), FLit(1, 10) }

\* rates and time steps under which dt * rate is not a float
EmissionRates == { << 0, 0, FLit(85, 2) >>, << 0, FLit(22, 1), FLit(7, 1) >> }

EmissionDtValues == { FLit(3, 128), FLit(5, 100) }

\* the enable flags while render() draws: glEnable(GL_BLEND),
\* glEnable(GL_DEPTH_TEST), glDisable(GL_CULL_FACE)
CapsForDraw(caps) == [ blend |-> TRUE, depth |-> TRUE, cull |-> FALSE ]

\* a render() that does not enable GL_CULL_FACE again
RestoreCapsButCull(caps, was) ==
    [ blend |-> IF ~was.blend THEN FALSE ELSE caps.blend,
      depth |-> IF ~was.depth THEN FALSE ELSE caps.depth,
      cull  |-> caps.cull ]

\* the end of render(): if (!blendWas) glDisable(GL_BLEND); if (!depthWas)
\* glDisable(GL_DEPTH_TEST); if (cullWas) glEnable(GL_CULL_FACE); was holds
\* the results of glIsEnabled at the start
RestoreCaps(caps, was) ==
    [ blend |-> IF ~was.blend THEN FALSE ELSE caps.blend,
      depth |-> IF ~was.depth THEN FALSE ELSE caps.depth,
      cull  |-> IF was.cull THEN TRUE ELSE caps.cull ]

\* ParticleSystem::render(cam, view, proj, clipPlane): it returns at once
\* without a vertex array or without instances; the draw reads
\* m_gpu.size() instances from the instance buffer
ParticleRenderOf ==
    /\ IF m_vao = 0 \/ m_gpu = << >>
       THEN UNCHANGED << glCaps, drawn >>
       ELSE /\ drawn' = [ count |-> Len(m_gpu),
                          read  |-> ReadInstances(m_vboInst, Len(m_gpu)) ]
            /\ glCaps' = RestoreCaps(CapsForDraw(glCaps), glCaps)
    /\ UNCHANGED << particleVars, m_gpu, m_timeNow, m_vboInst, m_vao, timeVars,
                    terrainVars, frameVars, inputVars, transformVars, playerVars, sunProbe >>

\* the log of a call: its name and its arguments (0 where it has none)
CallOf(op, dt, now, maxParticles) ==
    [ op |-> op, dt |-> dt, now |-> now, maxParticles |-> maxParticles ]

\* the calls of a caller that logs them; a crashed process makes none
CallInit(maxParticles) ==
    /\ lastCall.op # "crash"
    /\ ParticleInitOf(maxParticles)
    /\ lastCall' = CallOf("init", 0, 0, maxParticles)

CallShutdown ==
    /\ lastCall.op # "crash"
    /\ ParticleShutdownOf
    /\ lastCall' = CallOf("shutdown", 0, 0, 0)

CallRender ==
    /\ lastCall.op # "crash"
    /\ ParticleRenderOf
    /\ lastCall' = CallOf("render", 0, 0, 0)

\* update(dt, now) after init(), as main() calls it
CallUpdate(dt, now) ==
    /\ lastCall.op # "crash"
    /\ m_maxParticles > 0
    /\ ParticleUpdateOf(dt, now, PairedDraws)
    /\ lastCall' = CallOf("update", dt, now, 0)

\* the first spawn() of update(dt, now) erases begin() of an empty vector
ErasesFromEmpty(dt) ==
    /\ ~UpdateReturns(dt)
    /\ SpawnKinds(ClampDt(dt)) # << >>
    /\ m_particles = << >>
    /\ m_maxParticles <= 0

\* update(dt, now) whether or not init() ran.  Erasing from the empty vector
\* is undefined: the process crashes, or it goes on as Spawn has it
CallUpdateAny(dt, now) ==
    /\ lastCall.op # "crash"
    /\ \/ /\ ErasesFromEmpty(dt)
          /\ lastCall' = CallOf("crash", dt, now, 0)
          /\ evictions' = { [ victim |-> 0, oldest |-> 0, newest |-> spawnCount ] }
          /\ UNCHANGED << m_particles, m_maxParticles, m_flameAcc, m_emberAcc,
                          m_glowAcc, emitRate, spawnCount, lastDt, emitted, emitDue,
                          m_gpu, m_timeNow, m_vboInst, m_vao, glCaps, drawn,
                          timeVars, terrainVars, frameVars, inputVars, transformVars, playerVars, sunProbe >>
       \/ /\ ParticleUpdateOf(dt, now, PairedDraws)
          /\ lastCall' = CallOf("update", dt, now, 0)

\* other code of the frame enables or disables GL_BLEND, GL_DEPTH_TEST or
\* GL_CULL_FACE
GlSetCaps(caps) ==
    /\ lastCall.op # "crash"
    /\ glCaps' = caps
    /\ lastCall' = CallOf("caps", 0, 0, 0)
    /\ UNCHANGED << particleVars, m_gpu, m_timeNow, m_vboInst, m_vao, drawn,
                    timeVars, terrainVars, frameVars, inputVars, transformVars, playerVars, sunProbe >>

AllCaps == [ blend : BOOLEAN, depth : BOOLEAN, cull : BOOLEAN ]

\* the rates, time steps and clock readings of the render and lifecycle runs
RenderRates == { << 0, FLit(22, 1), FLit(32, 1) >> }

RenderDtValues == { FLit(-1, 1), 0, FLit(5, 100), FLit(1, 10) }

NowValues == { 0, FLit(1, 1) }


(***************************************************************************)
(* Terrain: 32-bit integer arithmetic of Hash2D.  A uint32_t is a pair     *)
(* << high 16 bits, low 16 bits >>; sums and products wrap modulo 2^32.    *)
(***************************************************************************)
Half == Pow2(16)

\* (uint32_t)n of an int n
ToU32(n) ==
    LET lo == n % Half
        hi == ((n - lo) \div Half) % Half
    IN  << hi, lo >>

RECURSIVE XorBits(_, _)
XorBits(a, b) ==
    IF a = 0 THEN b
    ELSE IF b = 0 THEN a
    ELSE ((a + b) % 2) + 2 * XorBits(a \div 2, b \div 2)

Xor32(a, b) == << XorBits(a[1], b[1]), XorBits(a[2], b[2]) >>

Add32(a, b) ==
    LET lo == a[2] + b[2]
    IN  << (a[1] + b[1] + (lo \div Half)) % Half, lo % Half >>

\* the low 16 bits of u * v, for u, v < 2^16
MulLow16(u, v) == ((((u \div 256) * v) % 256) * 256 + (u % 256) * v) % Half

\* u * v \div 2^16, for u, v < 2^16
MulHigh16(u, v) ==
    LET p1 == (u \div 256) * v
        p0 == (u % 256) * v
    IN  (p1 \div 256) + ((p1 % 256) * 256 + p0) \div Half

Mul32(a, b) ==
    << (MulHigh16(a[2], b[2]) + MulLow16(a[1], b[2]) + MulLow16(a[2], b[1])) % Half,
       MulLow16(a[2], b[2]) >>

\* h >> 13 and h >> 16
Shr13(h) == << h[1] \div 8192, ((h[1] % 8192) * 8 + (h[2] \div 8192)) % Half >>

Shr16(h) == << 0, h[1] >>

HashMulX == 374761393

HashMulZ == 668265263

HashMulH == 1274126177

\* the 24 low bits of the mixed hash, as an integer
Hash2DBits(x, z, seed) ==
    LET h0 == Xor32(Add32(Mul32(ToU32(x), ToU32(HashMulX)),
                          Mul32(ToU32(z), ToU32(HashMulZ))), ToU32(seed))
        h1 == Mul32(Xor32(h0, Shr13(h0)), ToU32(HashMulH))
        h2 == Xor32(h1, Shr16(h1))
    IN  (h2[1] % 256) * Half + h2[2]

\* Hash2D: (h & 0x00FFFFFF) is converted to float, then divided by 2^24
Hash2D(x, z, seed) ==
    FRound(FRound(Hash2DBits(x, z, seed), 1), Pow2(24 - FracBits))

(***************************************************************************)
(* Terrain: noise.                                                         *)
(***************************************************************************)
Smoothstep(t) == FMul(FMul(t, t), FSub(FLit(3, 1), FMul(FLit(2, 1), t)))

\* a + (b - a) * t, each operation rounded
Lerp(a, b, t) == FAdd(a, FMul(FSub(b, a), t))

ValueNoise(x, z, seed) ==
    LET x0 == FFloor(x)
        z0 == FFloor(z)
        x1 == x0 + 1
        z1 == z0 + 1
        tx == FSub(x, IntToFloat(x0))
        tz == FSub(z, IntToFloat(z0))
        a  == Hash2D(x0, z0, seed)
        b  == Hash2D(x1, z0, seed)
        c  == Hash2D(x0, z1, seed)
        d  == Hash2D(x1, z1, seed)
        ux == Smoothstep(tx)
        uz == Smoothstep(tz)
        ab == Lerp(a, b, ux)
        cd == Lerp(c, d, ux)
    IN  Lerp(ab, cd, uz)

Octaves == 5

SeedStride == 17

\* the loop of FBM from octave i on
RECURSIVE FBMLoop(_, _, _, _, _, _, _)
FBMLoop(x, z, seed, i, sum, amp, freq) ==
    IF i >= Octaves THEN sum
    ELSE LET n0 == ValueNoise(FMul(x, freq), FMul(z, freq), seed + i * SeedStride)
             n  == FSub(FMul(n0, FLit(2, 1)), FLit(1, 1))
         IN  FBMLoop(x, z, seed, i + 1, FAdd(sum, FMul(amp, n)),
                     FMul(amp, FLit(1, 2)), FMul(freq, FLit(2, 1)))

FBM(x, z, seed) == FBMLoop(x, z, seed, 0, 0, FLit(1, 2), FLit(1, 1))

(***************************************************************************)
(* Terrain: the object.  A Terrain is the record of its fields; m_heights  *)
(* is the vector, element k of the program at position k + 1.              *)
(***************************************************************************)
\* Terrain::Clamp
TerrainClamp(v, lo, hi) == IF v < lo THEN lo ELSE IF v > hi THEN hi ELSE v

\* Terrain::Terrain(widthVerts, depthVerts, gridSpacing)
TerrainNew(widthVerts, depthVerts, gridSpacing) ==
    LET width == FMul(IntToFloat(widthVerts - 1), gridSpacing)
        depth == FMul(IntToFloat(depthVerts - 1), gridSpacing)
    IN  [ m_widthVerts  |-> widthVerts,
          m_depthVerts  |-> depthVerts,
          m_gridSpacing |-> gridSpacing,
          m_origin      |-> << FMul(-width, FLit(1, 2)), FMul(-depth, FLit(1, 2)) >>,
          m_heights     |-> [ k \in 1..(widthVerts * depthVerts) |-> 0 ] ]

\* the range of int
IntMin == -Pow2(IntBits - 1)

IntMax == Pow2(IntBits - 1) - 1

\* the outcomes of a float-to-int conversion whose value no int can hold
UndefinedCasts == { IntMin, 1, IntMax }

\* (int)std::floor(f) where an undefined conversion yields ub
CastDefined(f) == IntMin <= FFloor(f) /\ FFloor(f) <= IntMax

CastInt(f, ub) == IF CastDefined(f) THEN FFloor(f) ELSE ub

\* the outcomes to consider for the conversions of the floats fs
CastOutcomes(fs) == IF \A f \in fs : CastDefined(f) THEN { 0 } ELSE UndefinedCasts

\* the element ix + iz * width, with no clamp of ix and iz
SampleIndexUnclamped(T, ix, iz) == ix + iz * T.m_widthVerts

\* (int)Clamp((float)i, 0.0f, (float)verts - 1.0f)
ClampIndex(i, verts) ==
    FFloor(TerrainClamp(IntToFloat(i), 0, FSub(IntToFloat(verts), FLit(1, 1))))

\* the element of m_heights that SampleHeightGrid(ix, iz) reads
SampleIndex(T, ix, iz) ==
    ClampIndex(ix, T.m_widthVerts) + ClampIndex(iz, T.m_depthVerts) * T.m_widthVerts

\* m_heights[k]; a read outside the vector yields an arbitrary value
HeightsAt(T, k) ==
    IF 0 <= k /\ k < Len(T.m_heights) THEN T.m_heights[k + 1] ELSE 0

SampleHeightGrid(T, ix, iz) == HeightsAt(T, SampleIndex(T, ix, iz))

\* world -> local grid coordinate along one axis
LocalCoord(T, axis, world) == FDiv(FSub(world, T.m_origin[axis]), T.m_gridSpacing)

\* the cell index GetHeight clamps the converted floor to
CellIndex(raw, verts) ==
    FFloor(TerrainClamp(IntToFloat(raw), 0, FSub(IntToFloat(verts), FLit(2, 1))))

\* a blend that takes the neighbour in z for the neighbour in x and back
CellBlendTransposed(T, i00, i10, i01, i11, tx, tz) ==
    [ value |-> Lerp(Lerp(HeightsAt(T, i00), HeightsAt(T, i01), tx),
                     Lerp(HeightsAt(T, i10), HeightsAt(T, i11), tx), tz),
      reads |-> { i00, i10, i01, i11 } ]

\* GetHeight: the bilinear blend of the elements i00, i10, i01, i11 at (tx, tz)
CellBlend(T, i00, i10, i01, i11, tx, tz) ==
    [ value |-> Lerp(Lerp(HeightsAt(T, i00), HeightsAt(T, i10), tx),
                     Lerp(HeightsAt(T, i01), HeightsAt(T, i11), tx), tz),
      reads |-> { i00, i10, i01, i11 } ]

\* GetHeight from the cell (x0, z0) on
GetHeightCell(T, lx, lz, x0, z0) ==
    CellBlend(T, SampleIndex(T, x0, z0), SampleIndex(T, x0 + 1, z0),
              SampleIndex(T, x0, z0 + 1), SampleIndex(T, x0 + 1, z0 + 1),
              TerrainClamp(FSub(lx, IntToFloat(x0)), 0, FLit(1, 1)),
              TerrainClamp(FSub(lz, IntToFloat(z0)), 0, FLit(1, 1)))

\* GetHeight from the local coordinates (lx, lz) on
GetHeightLocal(T, lx, lz, ub) ==
    GetHeightCell(T, lx, lz, CellIndex(CastInt(lx, ub[1]), T.m_widthVerts),
                  CellIndex(CastInt(lz, ub[2]), T.m_depthVerts))

\* GetHeight(worldX, worldZ), where an undefined conversion of lx yields
\* ub[1] and one of lz yields ub[2]: the value returned and the elements of
\* m_heights read
GetHeight(T, worldX, worldZ, ub) ==
    GetHeightLocal(T, LocalCoord(T, 1, worldX), LocalCoord(T, 2, worldZ), ub)

\* a GetNormal that returns the central differences as they are
NormalUnscaled(n, len, reads) == [ value |-> n, reads |-> reads ]

\* GetNormal: n normalised by its length len, (0, 1, 0) for a degenerate n
NormalOfLength(n, len, reads) ==
    [ value |-> IF len < FLit(1, 1000000) THEN << 0, FLit(1, 1), 0 >> ELSE Div3(n, len),
      reads |-> reads ]

\* GetNormal: the normal from the central differences n
NormalOfVector(n, reads) == NormalOfLength(n, Length3(n), reads)

\* GetNormal: the normal from the results of the four GetHeight calls, and
\* whether the four heights were equal
NormalOfHeights(hL, hR, hD, hU, eps) ==
    LET r == NormalOfVector(<< -FSub(hR.value, hL.value), FMul(FLit(2, 1), eps),
                               -FSub(hU.value, hD.value) >>,
                            hL.reads \cup hR.reads \cup hD.reads \cup hU.reads)
    IN  [ value |-> r.value, reads |-> r.reads,
          flat  |-> { hL.value, hR.value, hD.value } = { hU.value } ]

\* GetNormal(worldX, worldZ), with the undefined conversions of its four
\* GetHeight calls as in GetHeight
GetNormal(T, worldX, worldZ, ub) ==
    NormalOfHeights(GetHeight(T, FSub(worldX, T.m_gridSpacing), worldZ, ub),
                    GetHeight(T, FAdd(worldX, T.m_gridSpacing), worldZ, ub),
                    GetHeight(T, worldX, FSub(worldZ, T.m_gridSpacing), ub),
                    GetHeight(T, worldX, FAdd(worldZ, T.m_gridSpacing), ub),
                    T.m_gridSpacing)

(***************************************************************************)
(* Terrain: Build.                                                         *)
(***************************************************************************)
\* m_origin + i * m_gridSpacing, the world coordinate of vertex i on an axis
VertexCoord(T, axis, i) ==
    FAdd(T.m_origin[axis], FMul(IntToFloat(i), T.m_gridSpacing))

\* the shapes Terrains are constructed with
GridSpacings == { FLit(1, 1), FLit(1, 2) }

Shapes == (1..MaxVerts) \X (1..MaxVerts) \X GridSpacings

\* the arguments Build is called with: << noiseScale, heightScale, seed >>
BuildArgs ==
    { << FLit(8, 100), FLit(10, 1), 1337 >>, << FLit(8, 100), FLit(10, 1), 42 >>,
      << FLit(1, 2), FLit(10, 1), 1337 >>, << FLit(1, 2), FLit(5, 1), 42 >> }

\* FBM(wx * noiseScale, wz * noiseScale, seed) * heightScale
NoiseHeight(wx, wz, a) == FMul(FBM(FMul(wx, a[1]), FMul(wz, a[1]), a[3]), a[2])

\* NoiseHeight tabulated over the world coordinates of the vertices of all
\* Shapes (@@ makes the table an explicit function, evaluated once)
VertexCoords ==
    { VertexCoord(TerrainNew(s[1], s[1], s[3]), 1, i) : s \in Shapes, i \in 0..(MaxVerts - 1) }

NoiseHeightTable ==
    [ wx \in VertexCoords, wz \in VertexCoords, a \in BuildArgs |-> NoiseHeight(wx, wz, a) ]
    @@ << >>

\* a loop body that accumulates into the element instead of assigning it
BuildVertexAccumulate(T, h, x, z, a) ==
    [ h EXCEPT ![x + z * T.m_widthVerts + 1] =
          FAdd(@, NoiseHeightTable[VertexCoord(T, 1, x), VertexCoord(T, 2, z), a]) ]

\* the body of the loop of Build: the write of one element of m_heights
BuildVertex(T, h, x, z, a) ==
    [ h EXCEPT ![x + z * T.m_widthVerts + 1] =
          NoiseHeightTable[VertexCoord(T, 1, x), VertexCoord(T, 2, z), a] ]

\* the two loops of Build from (x, z) on
RECURSIVE BuildLoop(_, _, _, _, _)
BuildLoop(T, h, x, z, a) ==
    IF z >= T.m_depthVerts THEN h
    ELSE IF x >= T.m_widthVerts THEN BuildLoop(T, h, 0, z + 1, a)
    ELSE BuildLoop(T, BuildVertex(T, h, x, z, a), x + 1, z, a)

\* the heightfield loops of Terrain::Build(noiseScale, heightScale, seed)
Build(T, a) ==
    [ T EXCEPT !.m_heights = BuildLoop(T, T.m_heights, 0, 0, a) ]

(***************************************************************************)
(* Terrain: the calls.                                                     *)
(***************************************************************************)
TerrainIds == { 1, 2 }

NoQuery ==
    [ op |-> "none", vertex |-> << >>, far |-> FALSE, flat |-> FALSE, value |-> 0,
      reads |-> {} ]

\* main(): the terrain of the scene, not built yet
InitTerrain ==
    /\ terrain = [ id \in TerrainIds |-> TerrainNew(MaxVerts, MaxVerts, FLit(1, 2)) ]
    /\ lastBuild = [ id \in TerrainIds |-> << >> ]
    /\ lastQuery = NoQuery

\* a new Terrain object takes the place of Terrain id
TerrainConstruct(id, shape) ==
    /\ lastQuery.op = "none"
    /\ terrain' = [ terrain EXCEPT ![id] = TerrainNew(shape[1], shape[2], shape[3]) ]
    /\ lastBuild' = [ lastBuild EXCEPT ![id] = << >> ]
    /\ UNCHANGED << lastQuery, timeVars, particleVars, renderVars, frameVars, inputVars, transformVars, playerVars, sunProbe >>

\* the history of Builds of one object: the last arguments, and whether a
\* Build with other arguments ran on the object before
BuildHistory(old, a) ==
    << a, old # << >> /\ (old[1] # a \/ old[2]) >>

TerrainBuild(id, a) ==
    LET T == Build(terrain[id], a)
    IN  /\ lastQuery.op = "none"
        /\ terrain' = [ terrain EXCEPT ![id] = T ]
        /\ lastBuild' = [ lastBuild EXCEPT ![id] = BuildHistory(@, a) ]
        /\ UNCHANGED << lastQuery, timeVars, particleVars, renderVars, frameVars, inputVars, transformVars, playerVars, sunProbe >>

\* the coordinates GetHeight and GetNormal are called with along one axis:
\* every step half cells from one cell before the grid to one cell after it,
\* and the two positions beyond the range of int; v is the index of the
\* vertex at the coordinate, or -1
FarCoord == FLit(Pow2(IntBits), 1)

QueryCoords(T, axis, verts, step) ==
    { [ w |-> FAdd(T.m_origin[axis], FMul(FLit(k, 2), T.m_gridSpacing)),
        v |-> IF k % 2 = 0 /\ 0 <= k /\ k \div 2 < verts THEN k \div 2 ELSE -1 ]
      : k \in { j \in (-2)..(2 * verts) : j % step = 0 } }
    \cup { [ w |-> FarCoord, v |-> -1 ], [ w |-> -FarCoord, v |-> -1 ] }

TerrainGetHeight(id) ==
    LET T == terrain[id]
    IN  /\ lastQuery.op = "none"
        /\ \E qx \in QueryCoords(T, 1, T.m_widthVerts, 1),
                qz \in QueryCoords(T, 2, T.m_depthVerts, 1) :
             \E ub \in CastOutcomes({ LocalCoord(T, 1, qx.w) })
                        \X CastOutcomes({ LocalCoord(T, 2, qz.w) }) :
               \E r \in { GetHeight(T, qx.w, qz.w, ub) } :
                   lastQuery' = [ op |-> "GetHeight",
                                  vertex |-> IF qx.v >= 0 /\ qz.v >= 0
                                             THEN << qx.v, qz.v >> ELSE << >>,
                                  far |-> ub # << 0, 0 >>, flat |-> FALSE,
                                  value |-> r.value, reads |-> r.reads ]
        /\ UNCHANGED << terrain, lastBuild, timeVars, particleVars, renderVars, frameVars, inputVars, transformVars, playerVars, sunProbe >>

\* the local coordinates GetNormal(world) converts along one axis
NormalCoords(T, axis, world) ==
    { LocalCoord(T, axis, w) :
        w \in { world, FSub(world, T.m_gridSpacing), FAdd(world, T.m_gridSpacing) } }

TerrainGetNormal(id) ==
    LET T == terrain[id]
    IN  /\ lastQuery.op = "none"
        /\ \E qx \in QueryCoords(T, 1, T.m_widthVerts, 2),
                qz \in QueryCoords(T, 2, T.m_depthVerts, 2) :
             \E ub \in CastOutcomes(NormalCoords(T, 1, qx.w))
                        \X CastOutcomes(NormalCoords(T, 2, qz.w)) :
               \E r \in { GetNormal(T, qx.w, qz.w, ub) } :
                   lastQuery' = [ op |-> "GetNormal", vertex |-> << >>,
                                  far |-> ub # << 0, 0 >>,
                                  flat |-> r.flat,
                                  value |-> r.value, reads |-> r.reads ]
        /\ UNCHANGED << terrain, lastBuild, timeVars, particleVars, renderVars, frameVars, inputVars, transformVars, playerVars, sunProbe >>

\* the integers SampleHeightGrid is called with
SampleInts == ((-2)..(MaxVerts + 1)) \cup { IntMin, IntMax }

TerrainSampleHeightGrid(id) ==
    /\ lastQuery.op = "none"
    /\ \E ix \in SampleInts, iz \in SampleInts :
         lastQuery' = [ op |-> "SampleHeightGrid", vertex |-> << >>,
                        far |-> { ix, iz } \cap { IntMin, IntMax } # {},
                        flat |-> FALSE,
                        value |-> SampleHeightGrid(terrain[id], ix, iz),
                        reads |-> { SampleIndex(terrain[id], ix, iz) } ]
    /\ UNCHANGED << terrain, lastBuild, timeVars, particleVars, renderVars, frameVars, inputVars, transformVars, playerVars, sunProbe >>

\* the call in progress returns
TerrainReturn ==
    /\ lastQuery.op # "none"
    /\ lastQuery' = NoQuery
    /\ UNCHANGED << terrain, lastBuild, timeVars, particleVars, renderVars, frameVars, inputVars, transformVars, playerVars, sunProbe >>

(***************************************************************************)
(* Player: the movement on the ground plane.  The camera enters as the x   *)
(* and z of Camera::forward().                                             *)
(***************************************************************************)
m_moveSpeed == FLit(25, 10)

\* Terrain::MinX, MinZ (axis 1, 2)
TerrainMin(T, axis) == T.m_origin[axis]

\* Terrain::MaxX, MaxZ (axis 1, 2)
TerrainMax(T, axis) ==
    FAdd(T.m_origin[axis],
         FMul(IntToFloat((IF axis = 1 THEN T.m_widthVerts ELSE T.m_depthVerts) - 1),
              T.m_gridSpacing))

\* a threshold 1 / den of the program, or the least positive float of the
\* model where that is coarser
Threshold(den) == Max(FLit(1, den), 1)

\* the vector v of the ground plane over its length len, or the fallback
PlanarOverLength(v, len, eps, fallback) ==
    IF len < eps THEN fallback ELSE << FDiv(v[1], len), FDiv(v[2], len) >>

PlanarLength(v) == FSqrt(FAdd(FMul(v[1], v[1]), FMul(v[2], v[2])))

\* Player::update: camFwd and camRight with y = 0, normalised
PlanarUnit(v, fallback) == PlanarOverLength(v, PlanarLength(v), Threshold(10000), fallback)

\* Camera::right(): cross(f, (0, 1, 0)) over its length, x and z
CameraRight(f) ==
    PlanarOverLength(<< -f[2], f[1] >>, PlanarLength(<< -f[2], f[1] >>),
                     Threshold(1000000), << FLit(1, 1), 0 >>)

\* moveDir = camFwd * forwardAxis + camRight * rightAxis, x and z
MoveDir(camFwd, camRight, forwardAxis, rightAxis) ==
    << FAdd(FMul(camFwd[1], forwardAxis), FMul(camRight[1], rightAxis)),
       FAdd(FMul(camFwd[2], forwardAxis), FMul(camRight[2], rightAxis)) >>

\* m_position += moveDir / mLen * (m_moveSpeed * dt) while moving, x and z
MovedFrom(pos, moveDir, mLen, dt) ==
    IF mLen > Threshold(10000)
    THEN << FAdd(pos[1], FMul(FDiv(moveDir[1], mLen), FMul(m_moveSpeed, dt))),
            FAdd(pos[2], FMul(FDiv(moveDir[2], mLen), FMul(m_moveSpeed, dt))) >>
    ELSE pos

\* a clamp that keeps the position below the upper bound only
PlayerClampUpperOnly(v, lo, hi) == Min(v, hi)

\* std::max(lo, std::min(v, hi))
PlayerClamp(v, lo, hi) == Max(lo, Min(v, hi))

\* the player margin to the edge of the terrain
margin == FLit(2, 10)

\* step 4 of Player::update on axis 1 (x) or 2 (z)
KeepInside(T, axis, v) ==
    PlayerClamp(v, FAdd(TerrainMin(T, axis), margin), FSub(TerrainMax(T, axis), margin))

\* steps 4 and 5 of Player::update from the position pos after the movement
PlayerLanded(T, x, z) ==
    [ m_playerRoot |-> TRUE, x |-> x, z |-> z,
      y |-> FAdd(GetHeight(T, x, z, << 0, 0 >>).value, FLit(2, 100)) ]

PlayerAfterMove(T, pos) == PlayerLanded(T, KeepInside(T, 1, pos[1]), KeepInside(T, 2, pos[2]))

\* the position after steps 1 to 3 of Player::update
PlayerMove(p, camFwd, camRight, forwardAxis, rightAxis, dt) ==
    MovedFrom(<< p.x, p.z >>, MoveDir(camFwd, camRight, forwardAxis, rightAxis),
              PlanarLength(MoveDir(camFwd, camRight, forwardAxis, rightAxis)), dt)

\* x and z of Camera::forward() for the cameras of the orbit, and for a
\* camera that looks straight down
CamForwards ==
    { << 0, FLit(-94, 100) >>, << FLit(6, 10), FLit(6, 10) >>, << 0, 0 >> }

Axes == { FLit(-1, 1), 0, FLit(1, 1) }

\* dt of a frame: none, a minute, a minute back
PlayerDts == { 0, FLit(60, 1), FLit(-60, 1) }

InitPlayer ==
    /\ player = [ m_playerRoot |-> FALSE, x |-> 0, y |-> 0, z |-> 0 ]
    /\ moved = << >>

\* Player::build
PlayerBuild ==
    /\ ~player.m_playerRoot
    /\ player' = [ player EXCEPT !.m_playerRoot = TRUE ]
    /\ UNCHANGED << moved, timeVars, particleVars, renderVars, terrainVars, frameVars, inputVars, transformVars, sunProbe >>

\* on which side of the bounds of axis the coordinate v is
SideOf(T, axis, v) ==
    IF v < FAdd(TerrainMin(T, axis), margin) THEN -1
    ELSE IF v > FSub(TerrainMax(T, axis), margin) THEN 1 ELSE 0

Sides(T, pos) == << SideOf(T, 1, pos[1]), SideOf(T, 2, pos[2]) >>

\* Player::update of a player that was built, pos the position after step 3
PlayerUpdateFrom(T, pos) ==
    /\ moved' = Sides(T, pos)
    /\ player' = PlayerAfterMove(T, pos)

\* Player::update(input, dt, terrain, camera)
PlayerUpdate(T, f, forwardAxis, rightAxis, dt) ==
    /\ IF player.m_playerRoot
       THEN PlayerUpdateFrom(T, PlayerMove(player, PlanarUnit(f, << 0, FLit(-1, 1) >>),
                                           PlanarUnit(CameraRight(f), << FLit(1, 1), 0 >>),
                                           forwardAxis, rightAxis, dt))
       ELSE moved' = Sides(T, << player.x, player.z >>) /\ UNCHANGED player
    /\ UNCHANGED << timeVars, particleVars, renderVars, terrainVars, frameVars, inputVars, transformVars, sunProbe >>

(***************************************************************************)
(* Environment                                                             *)
(***************************************************************************)
\* m_sun.update before m_time.update: the light of the time before the step
EnvironmentUpdateSunFirst(t, dt) ==
    [ time |-> TimeOfDayUpdate(t, dt), light |-> SunUpdate(t) ]

\* Environment::update(dt): m_time.update(dt), then m_sun.update(m_time)
EnvironmentUpdate(t, dt) ==
    LET t1 == TimeOfDayUpdate(t, dt)
    IN  [ time |-> t1, light |-> SunUpdate(t1) ]

\* DirectionalLight m_light of a constructed Sun: no member has an
\* initialiser, no component holds a value yet
UnsetLight == [ direction |-> << >>, color |-> << >>, intensity |-> 0 ]

(***************************************************************************)
(* Water: the reflection target.  The OpenGL context is the record gl:     *)
(* fbo is the framebuffer bound to GL_FRAMEBUFFER (0 the window's),        *)
(* viewport is << width, height >>, clip is GL_CLIP_DISTANCE0.             *)
(***************************************************************************)
\* the name glGenFramebuffers gives the reflection framebuffer object
ReflectionFBOName == 1

\* a resize that gives new storage to the colour texture only
ResizeReflectionColourOnly(w, fbW, fbH) ==
    [ m_reflectFBO      |-> IF w.m_reflectFBO = 0 THEN ReflectionFBOName
                            ELSE w.m_reflectFBO,
      m_fboW            |-> Max(1, fbW \div 2),
      m_fboH            |-> Max(1, fbH \div 2),
      m_reflectColorTex |-> << Max(1, fbW \div 2), Max(1, fbH \div 2) >>,
      m_reflectDepthRBO |-> IF w.m_reflectFBO = 0
                            THEN << Max(1, fbW \div 2), Max(1, fbH \div 2) >>
                            ELSE w.m_reflectDepthRBO ]

\* Water::createOrResizeReflectionFBO(fbW, fbH): the fields of Water after it
\* m_reflectColorTex and m_reflectDepthRBO are the sizes of the storage of
\* the colour texture (glTexImage2D) and of the depth renderbuffer
\* (glRenderbufferStorage)
CreateOrResizeReflectionFBO(w, fbW, fbH) ==
    [ m_reflectFBO      |-> IF w.m_reflectFBO = 0 THEN ReflectionFBOName
                            ELSE w.m_reflectFBO,
      m_fboW            |-> Max(1, fbW \div 2),
      m_fboH            |-> Max(1, fbH \div 2),
      m_reflectColorTex |-> << Max(1, fbW \div 2), Max(1, fbH \div 2) >>,
      m_reflectDepthRBO |-> << Max(1, fbW \div 2), Max(1, fbH \div 2) >> ]

\* beginReflectionPass without the glViewport call
BeginReflectionPassNoViewport(g, w) == [ g EXCEPT !.fbo = w.m_reflectFBO ]

\* Water::beginReflectionPass(): the context after it
BeginReflectionPass(g, w) ==
    [ g EXCEPT !.fbo = w.m_reflectFBO, !.viewport = << w.m_fboW, w.m_fboH >> ]

\* endReflectionPass without the glViewport call
EndReflectionPassNoViewport(g, mainFbW, mainFbH) == [ g EXCEPT !.fbo = 0 ]

\* Water::endReflectionPass(mainFbW, mainFbH): the context after it
EndReflectionPass(g, mainFbW, mainFbH) ==
    [ g EXCEPT !.fbo = 0, !.viewport = << mainFbW, mainFbH >> ]

(***************************************************************************)
(* main(): the frame loop.                                                 *)
(***************************************************************************)
\* tc.waterHeight = -0.5f
waterHeight == FLit(-5, 10)

\* clipEps = 0.02f
clipEps == FLit(2, 100)

\* glm::vec4 clipPlaneAbove(0, 1, 0, -tc.waterHeight + clipEps)
clipPlaneAbove == << 0, FLit(1, 1), 0, FAdd(-waterHeight, clipEps) >>

\* glm::vec4 clipPlaneOff(0, 1, 0, 1000000)
clipPlaneOff == << 0, FLit(1, 1), 0, FLit(1000000, 1) >>

\* the shader programs with a uniform uClipPlane: terrainShader, shader,
\* modelShader and the particle shader of the campfire
ClipShaders == { "terrain", "basic", "model", "particle" }

\* a Camera: position (x, y, z), pivot (pivotX, pivotY, pivotZ) and the
\* orbit parameters yawDeg, pitchDeg and distance
CameraOf(pos, piv, yawDeg, pitchDeg, distance) ==
    [ x |-> pos[1], y |-> pos[2], z |-> pos[3],
      pivotX |-> piv[1], pivotY |-> piv[2], pivotZ |-> piv[3],
      yawDeg |-> yawDeg, pitchDeg |-> pitchDeg, distance |-> distance ]

\* a camRef that copies the camera and mirrors position.y alone
MirrorPositionOnly(cam) ==
    [ cam EXCEPT !.y = FSub(FMul(FLit(2, 1), waterHeight), cam.y) ]

\* camRef: a copy of the camera, mirrored about y = waterHeight
Mirror(cam) ==
    [ cam EXCEPT !.y      = FSub(FMul(FLit(2, 1), waterHeight), cam.y),
                 !.pivotY = FSub(FMul(FLit(2, 1), waterHeight), cam.pivotY) ]

\* the camera poses Camera::updateOrbit leaves; the third has position.y
\* one step of the float format below 2
CameraPoses ==
    { CameraOf(<< 0, FLit(2, 1), FLit(-6, 1) >>, << 0, FLit(1, 1), 0 >>,
               FLit(180, 1), FLit(20, 1), FLit(6, 1)),
      CameraOf(<< FLit(3, 1), FLit(7, 2), FLit(1, 2) >>, << FLit(1, 1), FLit(3, 2), FLit(-1, 1) >>,
               FLit(90, 1), FLit(45, 1), FLit(3, 1)),
      CameraOf(<< FLit(-2, 1), FLit(2, 1) - 1, FLit(3, 1) >>, << 0, FLit(13, 10), 0 >>,
               FLit(30, 1), FLit(10, 1), FLit(4, 1)) }

\* the framebuffer sizes of the window; << 0, 0 >> is the minimised window
WindowSizes == { << 1280, 720 >>, << 801, 601 >> }

CallbackSizes == WindowSizes \cup { << 0, 0 >>, << 5, 3 >> }

\* dt of a frame: no time passed, or an eighth of a day
FrameDts == { 0, FLit(15, 4) }

\* FramebufferSizeCallback(window, w, h): g_fbW, g_fbH and the viewport
FramebufferSizeCallback(f, g, w, h) ==
    LET cw == IF w > 0 THEN w ELSE 1
        ch == IF h > 0 THEN h ELSE 1
    IN  [ fb |-> [ f EXCEPT !.g_fbW = cw, !.g_fbH = ch ],
          gl |-> [ g EXCEPT !.viewport = << cw, ch >> ] ]

\* the steps of one iteration of the loop, in program order
FrameStages ==
    << "poll", "env", "fire", "resize", "reflSetup", "reflBegin", "reflSky",
       "reflWorld", "reflBoat", "reflFire", "reflEnd", "mainClear", "mainSky",
       "mainWorld", "mainBoat", "water", "overlayFire", "sunMarker", "swap" >>

\* an iteration that renders the water surface before the reflection pass
FrameStagesWaterFirst ==
    << "poll", "env", "fire", "resize", "water", "reflSetup", "reflBegin", "reflSky",
       "reflWorld", "reflBoat", "reflFire", "reflEnd", "mainClear", "mainSky",
       "mainWorld", "mainBoat", "overlayFire", "sunMarker", "swap" >>

StageAfter(stages, p) ==
    LET i == CHOOSE k \in DOMAIN stages : stages[k] = p
    IN  stages[(i % Len(stages)) + 1]

NextStageWaterFirst(p) == StageAfter(FrameStagesWaterFirst, p)

\* the step that follows step p
NextStage(p) == StageAfter(FrameStages, p)

\* the steps at which the frame is drawn: from the first lighting upload of
\* the reflection pass to the buffer swap
RenderStages ==
    { FrameStages[k] : k \in { i \in DOMAIN FrameStages : i >= 5 } }

\* tan(glm::radians(60.0f) / 2)
tanHalfFovy == FLit(57735, 100000)

zNear == FLit(1, 10)

zFar == FLit(200, 1)

\* glm::perspective(glm::radians(60.0f), aspect, 0.1f, 200.0f) with aspect =
\* float(w) / float(h): the entries [0][0], [1][1], [2][2] and [3][2]
Perspective(w, h) ==
    << FDiv(FLit(1, 1), FMul(FDiv(IntToFloat(w), IntToFloat(h)), tanHalfFovy)),
       FDiv(FLit(1, 1), tanHalfFovy),
       -FDiv(FAdd(zFar, zNear), FSub(zFar, zNear)),
       -FDiv(FMul(FMul(FLit(2, 1), zFar), zNear), FSub(zFar, zNear)) >>

\* a draw call whose projection is derived from the viewport it draws into
DrawCallViewportAspect(g, planes, pass, what, shader, view) ==
    [ ev |-> "draw", pass |-> pass, what |-> what, shader |-> shader,
      fbo |-> g.fbo, viewport |-> g.viewport, clip |-> g.clip, view |-> view,
      proj |-> Perspective(g.viewport[1], g.viewport[2]),
      plane |-> IF shader \in ClipShaders THEN planes[shader] ELSE << >> ]

\* history: one draw call, with the context and the uniforms it runs under;
\* uProj is proj of main() in every one of them
DrawCall(g, planes, pass, what, shader, view) ==
    [ ev |-> "draw", pass |-> pass, what |-> what, shader |-> shader,
      fbo |-> g.fbo, viewport |-> g.viewport, clip |-> g.clip, view |-> view,
      proj |-> proj,
      plane |-> IF shader \in ClipShaders THEN planes[shader] ELSE << >> ]

\* history: the begin or the end of the reflection pass
PassMark(g, ev) ==
    [ ev |-> ev, pass |-> "reflection", what |-> "", shader |-> "",
      fbo |-> g.fbo, viewport |-> g.viewport, clip |-> g.clip, view |-> << >>,
      proj |-> << >>, plane |-> << >> ]

\* the asset files main() loads: the two terrain textures, the shader
\* sources, the boat model and the HDR images of the sky
AssetNames == { "rocky", "sand", "shaders", "boat", "skyHdr" }

AssetStates == { "ok", "missing", "malformed" }

AllAssets == [ AssetNames -> AssetStates ]

FrameAssets ==
    { a \in AllAssets : \A n \in AssetNames \ { "boat" } : a[n] = "ok" /\ a["boat"] # "malformed" }

InitFrame ==
    /\ pc = "setup"
    /\ frameDt = 0
    /\ camera = CameraOf(<< 0, 0, 0 >>, << 0, 0, 0 >>, FLit(180, 1), FLit(20, 1), FLit(6, 1))
    /\ proj = << 0, 0, 0, 0 >>
    /\ m_light = UnsetLight
    /\ gl = [ fbo |-> 0, viewport |-> << 0, 0 >>, clip |-> FALSE ]
    /\ uClipPlane = [ s \in ClipShaders |-> << 0, 0, 0, 0 >> ]
    /\ water = [ m_reflectFBO |-> 0, m_fboW |-> 1, m_fboH |-> 1,
                 m_reflectColorTex |-> << 0, 0 >>, m_reflectDepthRBO |-> << 0, 0 >> ]
    /\ fb = [ g_fbW |-> 1280, g_fbH |-> 720, lastFbW |-> 0, lastFbH |-> 0 ]
    /\ boatLoaded = FALSE
    /\ assets = [ a \in AssetNames |-> "ok" ]
    /\ loaded = [ texRocky |-> "none", texSand |-> "none", skyReady |-> FALSE ]
    /\ fireGpu = FALSE
    /\ frameLog = << >>

\* what no step of the frame loop touches
frameRest ==
    << particleVars, renderVars, terrainVars, playerVars, sunProbe, inputVars,
       transformVars >>

\* texture = LoadTexture2D(path); if (texture == 0) texture = CreateSolidTexture2D(...)
TextureOrFallback(status) == IF status = "ok" THEN "file" ELSE "solid"

\* main() up to the loop, with the asset files as in files: the framebuffer
\* size of the new window, the viewport, the terrain textures (a failed load
\* is replaced by a solid colour), the shader programs (Shader::readTextFile,
\* compile and link end the process on a failure), the boat model (a failed
\* load is only logged), sky.init (a failed HDR load leaves m_ready false),
\* water.init
MainSetupOver(files) ==
    /\ pc = "setup"
    /\ \E size \in WindowSizes, a \in files :
          /\ assets' = a
          /\ fb' = [ g_fbW |-> size[1], g_fbH |-> size[2],
                     lastFbW |-> size[1], lastFbH |-> size[2] ]
          /\ gl' = [ gl EXCEPT !.fbo = 0, !.viewport = size ]
          /\ IF a["shaders"] # "ok"
             THEN /\ pc' = "exit"
                  /\ loaded' = [ loaded EXCEPT !.texRocky = TextureOrFallback(a["rocky"]),
                                               !.texSand = TextureOrFallback(a["sand"]) ]
                  /\ UNCHANGED << water, boatLoaded >>
             ELSE /\ pc' = "poll"
                  /\ loaded' = [ texRocky |-> TextureOrFallback(a["rocky"]),
                                 texSand  |-> TextureOrFallback(a["sand"]),
                                 skyReady |-> a["skyHdr"] = "ok" ]
                  /\ water' = CreateOrResizeReflectionFBO(water, size[1], size[2])
                  /\ boatLoaded' = (a["boat"] = "ok")
    /\ UNCHANGED << frameDt, camera, proj, m_light, uClipPlane, fireGpu, frameLog,
                    timeVars, frameRest >>

\* main() up to the loop, with every asset in place but, possibly, the boat
MainSetup == MainSetupOver(FrameAssets)

\* the top of an iteration: dt, glfwPollEvents (which may run
\* FramebufferSizeCallback), the camera and player update, view and proj
StagePollOver(dts, poses, sizes) ==
    /\ pc = "poll"
    /\ \E d \in dts : frameDt' = d
    /\ \E cam \in poses : camera' = cam
    /\ \/ UNCHANGED << fb, gl >>
       \/ \E size \in sizes :
             LET r == FramebufferSizeCallback(fb, gl, size[1], size[2])
             IN  fb' = r.fb /\ gl' = r.gl
    /\ proj' = Perspective(fb'.g_fbW, fb'.g_fbH)
    /\ frameLog' = << >>
    /\ pc' = NextStage(pc)
    /\ UNCHANGED << m_light, uClipPlane, water, boatLoaded, assets, loaded, fireGpu,
                    timeVars, frameRest >>

StagePoll == StagePollOver(FrameDts, CameraPoses, CallbackSizes)

\* environment.update(dt)
StageEnvironment ==
    /\ pc = "env"
    /\ LET r == EnvironmentUpdate(m_time01, frameDt)
       IN  m_time01' = r.time /\ m_light' = r.light
    /\ dayPhase' = PhaseAfter(dayPhase, frameDt)
    /\ pc' = NextStage(pc)
    /\ UNCHANGED << frameDt, camera, proj, gl, uClipPlane, water, fb, boatLoaded, assets, loaded, fireGpu,
                    frameLog, frameRest >>

\* fire.update(dt, now): returns at once when dt <= 0, else rebuilds m_gpu
\* from the live particles, of which there may be none
StageFireUpdate ==
    /\ pc = "fire"
    /\ IF frameDt <= 0 THEN UNCHANGED fireGpu ELSE \E b \in BOOLEAN : fireGpu' = b
    /\ pc' = NextStage(pc)
    /\ UNCHANGED << frameDt, camera, proj, m_light, gl, uClipPlane, water, fb, boatLoaded, assets, loaded,
                    frameLog, timeVars, frameRest >>

\* if (g_fbW != lastFbW || g_fbH != lastFbH) water.resize(g_fbW, g_fbH)
StageResize ==
    /\ pc = "resize"
    /\ IF fb.g_fbW # fb.lastFbW \/ fb.g_fbH # fb.lastFbH
       THEN /\ water' = CreateOrResizeReflectionFBO(water, fb.g_fbW, fb.g_fbH)
            /\ gl' = [ gl EXCEPT !.fbo = 0 ]
            /\ fb' = [ fb EXCEPT !.lastFbW = fb.g_fbW, !.lastFbH = fb.g_fbH ]
       ELSE UNCHANGED << water, gl, fb >>
    /\ pc' = NextStage(pc)
    /\ UNCHANGED << frameDt, camera, proj, m_light, uClipPlane, boatLoaded, assets, loaded, fireGpu,
                    frameLog, timeVars, frameRest >>

\* uClipPlane = clipPlaneAbove on terrainShader and shader; glEnable(GL_CLIP_DISTANCE0)
StageReflectionSetup ==
    /\ pc = "reflSetup"
    /\ uClipPlane' = [ uClipPlane EXCEPT !["terrain"] = clipPlaneAbove,
                                         !["basic"] = clipPlaneAbove ]
    /\ gl' = [ gl EXCEPT !.clip = TRUE ]
    /\ pc' = NextStage(pc)
    /\ UNCHANGED << frameDt, camera, proj, m_light, water, fb, boatLoaded, assets, loaded, fireGpu,
                    frameLog, timeVars, frameRest >>

\* water.beginReflectionPass()
StageReflectionBegin ==
    /\ pc = "reflBegin"
    /\ gl' = BeginReflectionPass(gl, water)
    /\ frameLog' = Append(frameLog, PassMark(gl', "begin"))
    /\ pc' = NextStage(pc)
    /\ UNCHANGED << frameDt, camera, proj, m_light, uClipPlane, water, fb, boatLoaded, assets, loaded,
                    fireGpu, timeVars, frameRest >>

\* a step that draws: the draw calls go to the history, nothing else changes
StageDraws(stage, draws) ==
    /\ pc = stage
    /\ frameLog' = frameLog \o draws
    /\ pc' = NextStage(pc)
    /\ UNCHANGED << frameDt, camera, proj, m_light, gl, uClipPlane, water, fb, boatLoaded, assets, loaded,
                    fireGpu, timeVars, frameRest >>

\* a step that sets uClipPlane of one shader and then draws with it, if
\* there is anything to draw
StageSetPlaneAndDraw(stage, shader, plane, present, pass, what, view) ==
    /\ pc = stage
    /\ uClipPlane' = [ uClipPlane EXCEPT ![shader] = plane ]
    /\ frameLog' = IF present
                   THEN Append(frameLog, DrawCall(gl, uClipPlane', pass, what, shader, view))
                   ELSE frameLog
    /\ pc' = NextStage(pc)
    /\ UNCHANGED << frameDt, camera, proj, m_light, gl, water, fb, boatLoaded, assets, loaded,
                    fireGpu, timeVars, frameRest >>

\* SceneNode::drawRecursive of the world: the parts of the player with
\* shader, then the terrain with terrainShader
WorldDraws(pass, view) ==
    << DrawCall(gl, uClipPlane, pass, "player", "basic", view),
       DrawCall(gl, uClipPlane, pass, "terrain", "terrain", view) >>

\* Sky::render: returns at once when m_ready is false, else draws the cube
SkyDraws(pass, cam) ==
    IF loaded.skyReady
    THEN << DrawCall(gl, uClipPlane, pass, "sky", "sky", cam) >>
    ELSE << >>

\* sky.render(camRef, proj, environment)
StageReflectionSky ==
    StageDraws("reflSky", SkyDraws("reflection", Mirror(camera)))

\* world.drawRecursive(viewRef, proj)
StageReflectionWorld ==
    StageDraws("reflWorld", WorldDraws("reflection", Mirror(camera)))

\* the boat of the reflection pass: modelShader uClipPlane = clipPlaneAbove, boat.draw
StageReflectionBoat ==
    StageSetPlaneAndDraw("reflBoat", "model", clipPlaneAbove, boatLoaded,
                         "reflection", "boat", Mirror(camera))

\* fire.render(camRef, viewRef, proj, clipPlaneAbove): returns at once when
\* m_gpu is empty, else sets uClipPlane and draws the instances
StageReflectionFire ==
    IF fireGpu
    THEN StageSetPlaneAndDraw("reflFire", "particle", clipPlaneAbove, TRUE,
                              "reflection", "particles", Mirror(camera))
    ELSE StageDraws("reflFire", << >>)

\* water.endReflectionPass(g_fbW, g_fbH)
StageReflectionEnd ==
    /\ pc = "reflEnd"
    /\ gl' = EndReflectionPass(gl, fb.g_fbW, fb.g_fbH)
    /\ frameLog' = Append(frameLog, PassMark(gl', "end"))
    /\ pc' = NextStage(pc)
    /\ UNCHANGED << frameDt, camera, proj, m_light, uClipPlane, water, fb, boatLoaded, assets, loaded,
                    fireGpu, timeVars, frameRest >>

\* glDisable(GL_CLIP_DISTANCE0); uClipPlane = clipPlaneOff on terrainShader
\* and shader; glClear
StageMainClear ==
    /\ pc = "mainClear"
    /\ gl' = [ gl EXCEPT !.clip = FALSE ]
    /\ uClipPlane' = [ uClipPlane EXCEPT !["terrain"] = clipPlaneOff,
                                         !["basic"] = clipPlaneOff ]
    /\ pc' = NextStage(pc)
    /\ UNCHANGED << frameDt, camera, proj, m_light, water, fb, boatLoaded, assets, loaded, fireGpu,
                    frameLog, timeVars, frameRest >>

\* sky.render(camera, proj, environment)
StageMainSky == StageDraws("mainSky", SkyDraws("main", camera))

\* world.drawRecursive(view, proj)
StageMainWorld == StageDraws("mainWorld", WorldDraws("main", camera))

\* the boat of the main pass: modelShader uClipPlane = clipPlaneOff, boat.draw
StageMainBoat ==
    StageSetPlaneAndDraw("mainBoat", "model", clipPlaneOff, boatLoaded,
                         "main", "boat", camera)

\* water.render(camera, view, proj, viewRef, ...)
StageWater ==
    StageDraws("water", << DrawCall(gl, uClipPlane, "water", "water", "water", camera) >>)

\* fire.render(camera, view, proj, clipPlaneOff)
StageOverlayFire ==
    IF fireGpu
    THEN StageSetPlaneAndDraw("overlayFire", "particle", clipPlaneOff, TRUE,
                              "overlay", "particles", camera)
    ELSE StageDraws("overlayFire", << >>)

\* the sun marker, drawn with shader while the sun is above the horizon
StageSunMarker ==
    StageDraws("sunMarker",
               IF m_light.direction[2] > 0
               THEN << DrawCall(gl, uClipPlane, "overlay", "sun", "basic", camera) >>
               ELSE << >>)

\* glfwSwapBuffers(window)
StageSwap == StageDraws("swap", << >>)

(***************************************************************************)
(* Input: the scroll accumulator.  The constructor registers the object as *)
(* the window's user pointer and installs ScrollCallback, so after         *)
(* construction the callback always finds its Input.                       *)
(***************************************************************************)
MaxScrollEvents == 3

\* the yoffsets the window system delivers: one notch either way, half a notch
ScrollOffsets == { FLit(-1, 1), FLit(1, 2), FLit(1, 1) }

NoConsume == [ done |-> FALSE, value |-> 0, offsets |-> << >> ]

\* double m_scrollY = 0.0;
InitInput ==
    /\ m_scrollY = 0
    /\ pendingScroll = << >>
    /\ lastConsume = NoConsume

ScrollOverwrite(acc, yoffset) == yoffset

\* self->m_scrollY += yoffset;
ScrollAccumulate(acc, yoffset) == FAdd(acc, yoffset)

\* Input::ScrollCallback(window, xoffset, yoffset)
ScrollCallback(yoffset) ==
    /\ Len(pendingScroll) < MaxScrollEvents
    /\ m_scrollY' = ScrollAccumulate(m_scrollY, yoffset)
    /\ pendingScroll' = Append(pendingScroll, yoffset)
    /\ UNCHANGED << lastConsume, timeVars, particleVars, renderVars, terrainVars,
                    frameVars, playerVars, sunProbe, transformVars >>

\* double Input::consumeScrollY() { double v = m_scrollY; m_scrollY = 0.0; return v; }
consumeScrollY ==
    /\ lastConsume' = [ done |-> TRUE, value |-> m_scrollY, offsets |-> pendingScroll ]
    /\ m_scrollY' = 0
    /\ pendingScroll' = << >>
    /\ UNCHANGED << timeVars, particleVars, renderVars, terrainVars, frameVars,
                    playerVars, sunProbe, transformVars >>

(***************************************************************************)
(* Transform: a hierarchy of nodes with lazily cached world matrices.      *)
(* A matrix is modelled by an affine map of the line, x |-> a * x + t;     *)
(* like the 4x4 matrices of the code these compose without commuting.      *)
(* A node is named by its index, 0 stands for nullptr.                     *)
(***************************************************************************)
MaxNodes == 2

Nodes == 1 .. MaxNodes

\* glm::mat4(1.0f)
IdentityMatrix == [ a |-> FLit(1, 1), t |-> 0 ]

\* operator* of two matrices: (P * L)(x) = P(L(x))
MatMul(P, L) == [ a |-> FMul(P.a, L.a), t |-> FAdd(FMul(P.a, L.t), P.t) ]

\* the values the setters are called with
PositionValues == { 0, FLit(1, 1) }

RotationValues == { FLit(1, 1), FLit(-1, 1) }

ScaleValues == { FLit(1, 1), FLit(2, 1) }

\* Transform() = default, with the member initialisers
NewTransform ==
    [ m_parent |-> 0, m_children |-> << >>,
      m_localPos |-> 0, m_localRot |-> FLit(1, 1), m_localScale |-> FLit(1, 1),
      m_dirty |-> TRUE, m_world |-> IdentityMatrix ]

NoRead == [ node |-> 0, value |-> IdentityMatrix ]

InitTransforms ==
    /\ transforms = [ n \in Nodes |-> NewTransform ]
    /\ lastRead = NoRead

\* Transform::localMatrix(): translate, then rotate, then scale
localMatrix(node) ==
    MatMul(MatMul([ a |-> FLit(1, 1), t |-> node.m_localPos ],
                  [ a |-> node.m_localRot, t |-> 0 ]),
           [ a |-> node.m_localScale, t |-> 0 ])

markDirtyShallow(ts, n) == [ ts EXCEPT ![n].m_dirty = TRUE ]

RECURSIVE markDirty(_, _)
RECURSIVE MarkChildren(_, _)
\* for (Transform* c : m_children) if (c) c->markDirty();
MarkChildren(ts, cs) ==
    IF cs = << >> THEN ts ELSE MarkChildren(markDirty(ts, Head(cs)), Tail(cs))

\* Transform::markDirty()
markDirty(ts, n) ==
    MarkChildren([ ts EXCEPT ![n].m_dirty = TRUE ], ts[n].m_children)

RECURSIVE worldMatrix(_, _)
\* Transform::worldMatrix(): the matrix returned and the caches it leaves
worldMatrix(ts, n) ==
    IF ts[n].m_dirty
    THEN IF ts[n].m_parent # 0
         THEN LET up == worldMatrix(ts, ts[n].m_parent)
                  w  == MatMul(up.value, localMatrix(ts[n]))
              IN  [ ts    |-> [ up.ts EXCEPT ![n].m_world = w, ![n].m_dirty = FALSE ],
                    value |-> w ]
         ELSE [ ts    |-> [ ts EXCEPT ![n].m_world = localMatrix(ts[n]),
                                      ![n].m_dirty = FALSE ],
                value |-> localMatrix(ts[n]) ]
    ELSE [ ts |-> ts, value |-> ts[n].m_world ]

\* std::remove(sibs.begin(), sibs.end(), this)
RemoveAll(seq, x) == SelectSeq(seq, LAMBDA c : c # x)

RECURSIVE IsAncestorOrSelf(_, _, _)
\* a is n, or the parent of n, or the parent of that, ...
IsAncestorOrSelf(ts, a, n) ==
    \/ a = n
    \/ ts[n].m_parent # 0 /\ IsAncestorOrSelf(ts, a, ts[n].m_parent)

\* Transform::setParent(newParent), the hierarchy after the call
SetParentOf(ts, n, newParent) ==
    IF ts[n].m_parent = newParent
    THEN ts
    ELSE LET wasParent  == ts[n].m_parent
             unlinked   == IF wasParent # 0
                           THEN [ ts EXCEPT ![wasParent].m_children =
                                                RemoveAll(@, n) ]
                           ELSE ts
             reparented == [ unlinked EXCEPT ![n].m_parent = newParent ]
             linked     == IF newParent # 0
                           THEN [ reparented EXCEPT ![newParent].m_children =
                                                        Append(@, n) ]
                           ELSE reparented
         IN  markDirty(linked, n)

transformRest ==
    << timeVars, particleVars, renderVars, terrainVars, frameVars, playerVars,
       sunProbe, inputVars >>

\* worldMatrix() assigns m_world of a dirty node before it reads it, so the
\* matrix a dirty node still holds is never seen: the model does not keep it
ForgetDirty(ts) ==
    [ n \in Nodes |-> IF ts[n].m_dirty
                      THEN [ ts[n] EXCEPT !.m_world = IdentityMatrix ]
                      ELSE ts[n] ]

\* the caller log: a call that changes nothing keeps the last read
AfterChange(ts) == IF ts = transforms THEN lastRead ELSE NoRead

\* setParent(newParent) on node n; callers keep the hierarchy a forest
setParent(n, newParent) ==
    /\ newParent # 0 => ~IsAncestorOrSelf(transforms, n, newParent)
    /\ \E ts \in { ForgetDirty(SetParentOf(transforms, n, newParent)) } :
          /\ transforms' = ts
          /\ lastRead' = AfterChange(ts)
    /\ UNCHANGED transformRest

\* setLocalPosition(p) on node n
setLocalPosition(n, p) ==
    /\ \E ts \in { ForgetDirty(markDirty([ transforms EXCEPT ![n].m_localPos = p ],
                                       n)) } :
          /\ transforms' = ts
          /\ lastRead' = AfterChange(ts)
    /\ UNCHANGED transformRest

\* setLocalRotation(q) on node n
setLocalRotation(n, q) ==
    /\ \E ts \in { ForgetDirty(markDirty([ transforms EXCEPT ![n].m_localRot = q ],
                                       n)) } :
          /\ transforms' = ts
          /\ lastRead' = AfterChange(ts)
    /\ UNCHANGED transformRest

\* setLocalScale(s) on node n
setLocalScale(n, s) ==
    /\ \E ts \in { ForgetDirty(markDirty([ transforms EXCEPT ![n].m_localScale = s ],
                                       n)) } :
          /\ transforms' = ts
          /\ lastRead' = AfterChange(ts)
    /\ UNCHANGED transformRest

\* a caller reads worldMatrix() of node n
ReadWorldMatrix(n) ==
    /\ \E r \in { worldMatrix(transforms, n) } :
          /\ transforms' = r.ts
          /\ lastRead' = [ node |-> n, value |-> r.value ]
    /\ UNCHANGED transformRest

(***************************************************************************)
(* Specifications.                                                         *)
(***************************************************************************)
Init ==
    /\ InitTime
    /\ InitParticles
    /\ InitTerrain
    /\ InitFrame
    /\ InitPlayer
    /\ InitSunProbe
    /\ InitInput
    /\ InitTransforms

NextTime == \E dt \in DtValues : TimeUpdate(dt)

SpecTime == Init /\ [][NextTime]_vars

NextParticles ==
    \/ \E mp \in 0..(MinParticles + MaxExtraParticles) : ParticleInit(mp)
    \/ \E r \in RateConfigs : SetEmitRates(r[1], r[2], r[3])
    \/ \E dt \in ParticleDtValues : ParticleUpdate(dt)

SpecParticles == Init /\ [][NextParticles]_vars

\* the emitter under rates and frame times whose product is rounded
NextEmission ==
    \/ ParticleInit(MinParticles)
    \/ \E r \in EmissionRates : SetEmitRates(r[1], r[2], r[3])
    \/ \E dt \in EmissionDtValues : ParticleUpdate(dt)

SpecEmission == Init /\ [][NextEmission]_vars

\* the campfire as main() runs it: init(), then update() and render() each
\* frame
NextRender ==
    \/ \E mp \in { 0, MinParticles + MaxExtraParticles } : CallInit(mp)
    \/ \E r \in RenderRates : SetEmitRates(r[1], r[2], r[3])
    \/ \E dt \in RenderDtValues, now \in NowValues : CallUpdate(dt, now)
    \/ CallRender

SpecRender == Init /\ [][NextRender]_vars

\* render() under every setting of the enable flags, with and without
\* instances to draw
NextCaps ==
    \/ CallInit(0)
    \/ \E r \in RenderRates : SetEmitRates(r[1], r[2], r[3])
    \/ CallUpdate(MaxStep, 0)
    \/ CallRender
    \/ \E caps \in AllCaps : GlSetCaps(caps)

SpecCaps == Init /\ [][NextCaps]_vars

\* init(), update(), render() and shutdown() in every order
NextLifecycle ==
    \/ CallInit(0)
    \/ CallShutdown
    \/ \E r \in RenderRates : SetEmitRates(r[1], r[2], r[3])
    \/ \E dt \in RenderDtValues, now \in NowValues : CallUpdateAny(dt, now)
    \/ CallRender

SpecLifecycle == Init /\ [][NextLifecycle]_vars

\* one Terrain: construction, one Build as in main(), and the height queries
NextTerrain ==
    \/ \E shape \in Shapes : TerrainConstruct(1, shape)
    \/ \E a \in BuildArgs : lastBuild[1] = << >> /\ TerrainBuild(1, a)
    \/ TerrainGetHeight(1)
    \/ TerrainGetNormal(1)
    \/ TerrainSampleHeightGrid(1)
    \/ TerrainReturn

SpecTerrain == Init /\ [][NextTerrain]_vars

\* two Terrains: construction and Builds of each
BuildShapes ==
    { << MaxVerts - 1, MaxVerts, FLit(1, 2) >>, << MaxVerts, MaxVerts, FLit(1, 2) >>,
      << MaxVerts, MaxVerts, FLit(1, 1) >> }

NextBuild ==
    \/ \E id \in TerrainIds, shape \in BuildShapes : TerrainConstruct(id, shape)
    \/ \E id \in TerrainIds, a \in BuildArgs : TerrainBuild(id, a)

SpecBuild == Init /\ [][NextBuild]_vars

\* main(): set-up, then the frame loop
NextFrame ==
    \/ MainSetup
    \/ StagePoll
    \/ StageEnvironment
    \/ StageFireUpdate
    \/ StageResize
    \/ StageReflectionSetup
    \/ StageReflectionBegin
    \/ StageReflectionSky
    \/ StageReflectionWorld
    \/ StageReflectionBoat
    \/ StageReflectionFire
    \/ StageReflectionEnd
    \/ StageMainClear
    \/ StageMainSky
    \/ StageMainWorld
    \/ StageMainBoat
    \/ StageWater
    \/ StageOverlayFire
    \/ StageSunMarker
    \/ StageSwap

SpecFrame == Init /\ [][NextFrame]_vars

\* the frame loop over every state of the asset files, with one dt, one
\* camera pose and one resize
NextAssets ==
    \/ MainSetupOver(AllAssets)
    \/ StagePollOver({ FLit(15, 4) }, { CHOOSE c \in CameraPoses : c.y = FLit(2, 1) },
                     { << 801, 601 >> })
    \/ StageEnvironment
    \/ StageFireUpdate
    \/ StageResize
    \/ StageReflectionSetup
    \/ StageReflectionBegin
    \/ StageReflectionSky
    \/ StageReflectionWorld
    \/ StageReflectionBoat
    \/ StageReflectionFire
    \/ StageReflectionEnd
    \/ StageMainClear
    \/ StageMainSky
    \/ StageMainWorld
    \/ StageMainBoat
    \/ StageWater
    \/ StageOverlayFire
    \/ StageSunMarker
    \/ StageSwap

SpecAssets == Init /\ [][NextAssets]_vars

NextPlayer ==
    \/ \E a \in BuildArgs : lastBuild[1] = << >> /\ TerrainBuild(1, a)
    \/ PlayerBuild
    \/ \E f \in CamForwards, forwardAxis, rightAxis \in Axes, dt \in PlayerDts :
          PlayerUpdate(terrain[1], f, forwardAxis, rightAxis, dt)

SpecPlayer == Init /\ [][NextPlayer]_vars

NextSun == SunProbeFirst \/ SunProbeNext

SpecSun == Init /\ [][NextSun]_vars

(***************************************************************************)
(* Claims.                                                                 *)
(***************************************************************************)
\* C1: over any sequence of TimeOfDay.update(dt) calls with dt >= 0, time01
\* is always in [0,1): never negative, never 1.0, never above 1
C1_Time01InUnitInterval == 0 <= m_time01 /\ m_time01 < FLit(1, 1)

\* C11: from t0, after any sequence of update(dt) steps with dt >= 0 of total
\* delta, time01 is the fractional part of t0 + delta / dayLength, whatever
\* the sizes of the steps
C11_Time01IsFractionalPart == m_time01 * dayLengthSeconds = dayPhase * Unit

\* C12: for each kind, the particles spawned over any sequence of update
\* steps number floor(rate x elapsed dt), the elapsed dt being the sum of the
\* steps as update() takes them (at most 0.05 s each)
C12_SpawnCountIsRateTimesElapsed ==
    \A k \in 1..3 : emitDue[k] >= 0 => emitted[k] = emitDue[k] \div (Unit * Unit)

\* the positions of the particle with the given id in a live set
SlotsOf(ps, id) == { j \in DOMAIN ps : ps[j].id = id }

\* C13: after an update step with dt > 0 no particle with life <= 0 is in the
\* live set, and every particle that was live when integration began (the
\* old particles and the new ones, less the evicted) had its life decremented
\* exactly once: it is gone if that left no life, else it is in the live set
\* once, with its life less dt
C13_IntegrateOncePerParticle ==
    [][ (lastDt' > 0 /\ emitRate' = emitRate) =>
          LET victims == { e.victim : e \in evictions' }
          IN  /\ \A j \in DOMAIN m_particles' : m_particles'[j].life > 0
              /\ \A i \in DOMAIN m_particles :
                    m_particles[i].id \notin victims =>
                        IF FSub(m_particles[i].life, lastDt') <= 0
                        THEN SlotsOf(m_particles', m_particles[i].id) = {}
                        ELSE \E j \in DOMAIN m_particles' :
                               /\ SlotsOf(m_particles', m_particles[i].id) = { j }
                               /\ m_particles'[j].life
                                      = FSub(m_particles[i].life, lastDt')
              /\ \A id \in ((spawnCount + 1)..spawnCount') \ victims :
                    \E j \in DOMAIN m_particles' :
                       /\ SlotsOf(m_particles', id) = { j }
                       /\ m_particles'[j].life = FSub(m_particles'[j].life0, lastDt')
              /\ \A j \in DOMAIN m_particles' :
                    m_particles'[j].id \in
                        ({ m_particles[i].id : i \in DOMAIN m_particles }
                             \cup ((spawnCount + 1)..spawnCount')) \ victims
      ]_vars

\* C13 witness: an update removed a dead particle from the middle of the
\* vector, so that a younger particle stands before an older one
C13_Witness ==
    /\ lastDt > 0
    /\ \E i \in DOMAIN m_particles, j \in DOMAIN m_particles :
          i < j /\ m_particles[i].id > m_particles[j].id

\* C14: a capacity eviction never removes the particle that was spawned most
\* recently before it, and after an update that spawned at capacity the
\* particle spawned last is in the live set
C14_NewestSurvivesEviction ==
    /\ \A e \in evictions : e.victim # e.newest
    /\ evictions # {} => SlotsOf(m_particles, spawnCount) # {}

\* C14 witness: an update spawned at capacity, and the particle it evicted
\* from the front of the vector was not the oldest one
C14_Witness ==
    /\ \E e \in evictions : e.victim # e.oldest /\ e.victim # e.newest
    /\ SlotsOf(m_particles, spawnCount) # {}

\* n is the integer half of size, and 1 when that is 0
HalfAtLeastOne(n, size) == IF size < 2 THEN n = 1 ELSE 2 * n <= size /\ size < 2 * n + 2

\* the steps of a frame at which the reflection target is in use or has been used
TargetInUse ==
    { FrameStages[k] : k \in { i \in DOMAIN FrameStages : i >= 7 } }

\* C15: from beginReflectionPass on, the size of the reflection target is half
\* the current main framebuffer size in both dimensions (integer halves, at
\* least 1), and the colour and the depth attachment both have that size: a
\* size change is applied completely before the target is used in the frame
C15_TargetIsHalfSize ==
    pc \in TargetInUse =>
        /\ HalfAtLeastOne(water.m_fboW, fb.g_fbW)
        /\ HalfAtLeastOne(water.m_fboH, fb.g_fbH)
        /\ water.m_reflectColorTex = << water.m_fboW, water.m_fboH >>
        /\ water.m_reflectDepthRBO = << water.m_fboW, water.m_fboH >>
        /\ \E k \in DOMAIN frameLog :
              /\ frameLog[k].ev = "begin"
              /\ frameLog[k].viewport = << water.m_fboW, water.m_fboH >>

\* C15 witness: a reflection pass has begun after the window was minimised:
\* the target made by water.init was resized to the least size
C15_Witness ==
    /\ pc = "reflSky"
    /\ << fb.g_fbW, fb.g_fbH >> = << 1, 1 >>
    /\ water.m_reflectDepthRBO = << 1, 1 >>
    /\ gl.viewport = << water.m_fboW, water.m_fboH >>

C3_EvictsOldest == \A e \in evictions : e.victim = e.oldest

\* C4: after Build, GetHeight at the world position of a grid vertex (ix, iz),
\* the last row and the last column included, returns heights[ix + iz*width]
C4_VertexHeightExact ==
    (lastQuery.op = "GetHeight" /\ lastQuery.vertex # << >> /\ lastBuild[1] # << >>)
        => lastQuery.value =
               terrain[1].m_heights[lastQuery.vertex[1]
                                    + lastQuery.vertex[2] * terrain[1].m_widthVerts + 1]

\* C5: every read of heights[] by SampleHeightGrid, GetHeight and GetNormal,
\* whatever integers or world position they are called with, is at an index of [0, widthVerts-1] x [0, depthVerts-1]
C5_ReadsInsideGrid ==
    \A k \in lastQuery.reads :
        0 <= k /\ k < terrain[1].m_widthVerts * terrain[1].m_depthVerts

\* C5 witness: GetNormal at a position beyond the range of int, on a built
\* terrain of more than one cell, read heights[]
C5_Witness ==
    /\ lastQuery.op = "GetNormal"
    /\ lastQuery.far
    /\ lastBuild[1] # << >>
    /\ terrain[1].m_widthVerts > 2 /\ terrain[1].m_depthVerts > 2
    /\ lastQuery.reads # {}

\* the draw calls of pass p in the history of the frame
DrawsOf(p) ==
    { k \in DOMAIN frameLog : frameLog[k].ev = "draw" /\ frameLog[k].pass = p }

\* the positions of the history after the end of the reflection pass
AfterReflectionEnd ==
    { k \in DOMAIN frameLog : \E e \in 1..(k - 1) : frameLog[e].ev = "end" }

\* C6: Environment.update advances the clock and then the sun, so at every
\* render step of a frame the light of the sun is the sun model applied to
\* the current time01
C6_SunFollowsTime == pc \in RenderStages => m_light = SunUpdate(m_time01)

\* C6 witness: a frame that advanced the clock draws the terrain of the main
\* pass under a light that differs from the light of the time before the step
C6_Witness ==
    /\ pc = "mainWorld"
    /\ frameDt > 0
    /\ \E t \in 0..Unit :
          /\ TimeOfDayUpdate(t, frameDt) = m_time01
          /\ SunUpdate(t) # m_light

\* C7: every draw of the reflection pass (terrain, player nodes, boat,
\* particles) runs with the reflection target bound, the viewport of the
\* size of the target, GL_CLIP_DISTANCE0 enabled, the mirrored camera's view,
\* and uClipPlane of the drawing shader equal to clipPlaneAbove
C7_ReflectionDrawState ==
    \A k \in DrawsOf("reflection") :
        LET d == frameLog[k]
        IN  /\ water.m_reflectFBO # 0 /\ d.fbo = water.m_reflectFBO
            /\ d.viewport = << water.m_fboW, water.m_fboH >>
            /\ d.clip
            /\ d.view = Mirror(camera)
            /\ d.shader \in ClipShaders => d.plane = clipPlaneAbove

\* C7 witness: a reflection pass drew the terrain, the player, the boat and
\* the particles, in a frame whose window size had changed
C7_Witness ==
    /\ pc = "reflEnd"
    /\ { frameLog[k].what : k \in DrawsOf("reflection") }
           = { "sky", "player", "terrain", "boat", "particles" }
    /\ << water.m_fboW, water.m_fboH >> # << 640, 360 >>

\* C8: every draw after endReflectionPass runs with the default framebuffer
\* bound, the viewport of the main framebuffer size and GL_CLIP_DISTANCE0
\* disabled, and the terrain, basic, model and particle shaders draw with
\* uClipPlane = clipPlaneOff
C8_MainDrawState ==
    \A k \in AfterReflectionEnd :
        LET d == frameLog[k]
        IN  d.ev = "draw" =>
                /\ d.fbo = 0
                /\ d.viewport = << fb.g_fbW, fb.g_fbH >>
                /\ ~d.clip
                /\ d.shader \in ClipShaders => d.plane = clipPlaneOff

\* C8 witness: after a reflection pass into a target of another size, the
\* frame drew with all four shaders that have a clip plane
C8_Witness ==
    /\ pc = "swap"
    /\ { frameLog[k].shader : k \in AfterReflectionEnd } \cap ClipShaders = ClipShaders
    /\ << water.m_fboW, water.m_fboH >> # << fb.g_fbW, fb.g_fbH >>

\* the place of a pass in the order of the frame
PassRank(p) ==
    CASE p = "reflection" -> 1
      [] p = "main"       -> 2
      [] p = "water"      -> 3
      [] p = "overlay"    -> 4

\* C9: the passes of an iteration run in the order reflection (begin to
\* end), main, water, overlays; the water is never drawn before the
\* reflection pass of the same frame has ended
C9_PassOrder ==
    /\ \A i \in DOMAIN frameLog, j \in DOMAIN frameLog :
          i < j => PassRank(frameLog[i].pass) <= PassRank(frameLog[j].pass)
    /\ \A k \in DrawsOf("reflection") :
          /\ \E b \in 1..(k - 1) : frameLog[b].ev = "begin"
          /\ k \notin AfterReflectionEnd
    /\ \A p \in { "main", "water", "overlay" } : DrawsOf(p) \subseteq AfterReflectionEnd
    /\ pc = "swap" =>
          /\ \E b \in DOMAIN frameLog : frameLog[b].ev = "begin"
          /\ \E e \in DOMAIN frameLog : frameLog[e].ev = "end"
          /\ DrawsOf("reflection") # {} /\ DrawsOf("main") # {} /\ DrawsOf("water") # {}

\* C9 witness: a complete frame with draws in all four passes
C9_Witness ==
    /\ pc = "swap"
    /\ \A p \in { "reflection", "main", "water", "overlay" } : DrawsOf(p) # {}


\* C10: two Terrains of equal dimensions and spacing whose last Builds had
\* the same arguments hold identical heights[], whatever Build ran before
C10_BuildDeterministic ==
    \A i \in TerrainIds, j \in TerrainIds :
        ( /\ lastBuild[i] # << >> /\ lastBuild[j] # << >>
          /\ lastBuild[i][1] = lastBuild[j][1]
          /\ terrain[i].m_widthVerts = terrain[j].m_widthVerts
          /\ terrain[i].m_depthVerts = terrain[j].m_depthVerts
          /\ terrain[i].m_gridSpacing = terrain[j].m_gridSpacing )
        => terrain[i].m_heights = terrain[j].m_heights

\* C10 witness: two Terrains of equal shape hold the same heights, not all
\* equal, after the same Build; one was built once, the other had been built
\* with other arguments before
C10_Witness ==
    /\ lastBuild[1] # << >> /\ lastBuild[2] # << >>
    /\ lastBuild[1][1] = lastBuild[2][1]
    /\ lastBuild[1][2] /\ ~lastBuild[2][2]
    /\ terrain[1].m_heights = terrain[2].m_heights
    /\ \E k \in DOMAIN terrain[1].m_heights : terrain[1].m_heights[k] # terrain[1].m_heights[1]

\* the draw calls of the frame so far that take the projection of the frame:
\* the reflection pass, the main pass and the water surface
ProjectedDraws == DrawsOf("reflection") \cup DrawsOf("main") \cup DrawsOf("water")

\* C16: within one frame every draw of the reflection pass, every draw of the
\* main pass and the water shader get the same projection matrix; between the
\* reflection pass and the main pass only the view differs: the mirrored
\* camera's in the first, the active camera's in the second and for the water
C16_OneProjectionPerFrame ==
    /\ \A i, j \in ProjectedDraws : frameLog[i].proj = frameLog[j].proj
    /\ \A i \in ProjectedDraws : frameLog[i].proj = proj
    /\ \A i \in DrawsOf("reflection") : frameLog[i].view = Mirror(camera)
    /\ \A i \in DrawsOf("main") \cup DrawsOf("water") : frameLog[i].view = camera

\* C16 witness: a frame drawn up to the water surface, into a reflection
\* target whose aspect ratio is not the window's, with draws in both passes
C16_Witness ==
    /\ pc = "overlayFire"
    /\ DrawsOf("reflection") # {} /\ DrawsOf("main") # {} /\ DrawsOf("water") # {}
    /\ Perspective(water.m_fboW, water.m_fboH) # proj
    /\ Mirror(camera) # camera

\* 2.0f * tc.waterHeight - y, as the float expression of main()
MirroredHeight(y) == FSub(FMul(FLit(2, 1), waterHeight), y)

\* the cameras a and b agree in everything but position.y and pivot.y
SameButHeights(a, b) ==
    [ a EXCEPT !.y = 0, !.pivotY = 0 ] = [ b EXCEPT !.y = 0, !.pivotY = 0 ]

\* the mirrored camera of every reflection draw is the active camera with
\* position.y and pivot.y mirrored; the main pass and the water are drawn
\* with the active camera the mirrored one was derived from
MirroredCameraOfFrame ==
    /\ \A i \in DrawsOf("reflection") :
          /\ frameLog[i].view.y = MirroredHeight(camera.y)
          /\ frameLog[i].view.pivotY = MirroredHeight(camera.pivotY)
          /\ SameButHeights(frameLog[i].view, camera)
    /\ \A i \in DrawsOf("main") \cup DrawsOf("water") : frameLog[i].view = camera

\* the spacing of the floats at the magnitude of a
Ulp(a) == Pow2(FExp(Abs(a), 1, 0))

\* y mirrored twice is y when the first mirroring is exact, and in any case
\* differs from y by no more than the two roundings
TwiceWithinRounding(y, once, twice) ==
    /\ 2 * Abs(twice - y) <= Ulp(once) + Ulp(twice)
    /\ once = FMul(FLit(2, 1), waterHeight) - y => twice = y

\* C17 as stated: the mirrored camera has position.y = 2*waterLevel - y and
\* pivot.y = 2*waterLevel - pivot.y, everything else equal to the active
\* camera's, the active camera is left unchanged, and mirroring twice gives
\* back the original position and pivot
C17_MirrorTwiceIsIdentity ==
    /\ MirroredCameraOfFrame
    /\ Mirror(Mirror(camera)) = camera

\* C17 amended: as above, but mirroring twice gives back the original
\* position.y and pivot.y only up to the rounding of the two subtractions
\* (exactly when the first subtraction is exact); x, z and the other
\* parameters come back exactly
C17_MirrorTwiceWithinRounding ==
    /\ MirroredCameraOfFrame
    /\ SameButHeights(Mirror(Mirror(camera)), camera)
    /\ TwiceWithinRounding(camera.y, Mirror(camera).y, Mirror(Mirror(camera)).y)
    /\ TwiceWithinRounding(camera.pivotY, Mirror(camera).pivotY,
                           Mirror(Mirror(camera)).pivotY)

\* C17 witness: the reflection pass was drawn with a mirrored camera whose
\* position.y was rounded, so that mirroring it again misses the original
C17_Witness ==
    /\ pc = "reflEnd"
    /\ DrawsOf("reflection") # {}
    /\ Mirror(camera).y # FMul(FLit(2, 1), waterHeight) - camera.y
    /\ Mirror(Mirror(camera)).y # camera.y
    /\ Mirror(Mirror(camera)).pivotY = camera.pivotY

\* the draw calls of the frame so far that draw what
DrawsOfWhat(what) ==
    { k \in DOMAIN frameLog : frameLog[k].ev = "draw" /\ frameLog[k].what = what }

\* C18: a texture, shader or model asset that is missing or malformed never
\* ends the process nor keeps the frame loop from running: main() goes on
\* into the loop, a terrain texture that failed is replaced by a solid
\* colour, and the boat or the sky that failed to load is not drawn
C18_AssetFailureNeverTerminates ==
    /\ pc # "exit"
    /\ pc # "setup" =>
          /\ assets["rocky"] # "ok" => loaded.texRocky = "solid"
          /\ assets["sand"] # "ok" => loaded.texSand = "solid"
          /\ assets["boat"] # "ok" => ~boatLoaded /\ DrawsOfWhat("boat") = {}
          /\ assets["skyHdr"] # "ok" => ~loaded.skyReady /\ DrawsOfWhat("sky") = {}

\* the player is inside the bounds of the terrain on axis, a margin off the
\* edges, and sits on the bound it was carried across
InsideOnAxis(T, axis, v, side) ==
    /\ FAdd(TerrainMin(T, axis), margin) <= v
    /\ v <= FSub(TerrainMax(T, axis), margin)
    /\ side = -1 => v = FAdd(TerrainMin(T, axis), margin)
    /\ side = 1 => v = FSub(TerrainMax(T, axis), margin)

\* C19: after every Player::update, whatever the keys, the camera and dt,
\* the player's x is within [MinX + 0.2, MaxX - 0.2] and z within
\* [MinZ + 0.2, MaxZ - 0.2], and a coordinate that the movement carried
\* beyond a bound is exactly MinX + 0.2 or MaxX - 0.2 (MinZ + 0.2, MaxZ - 0.2)
C19_PlayerStaysInsideTerrain ==
    moved # << >> =>
        /\ InsideOnAxis(terrain[1], 1, player.x, moved[1])
        /\ InsideOnAxis(terrain[1], 2, player.z, moved[2])

\* C19 witness: an update moved the player beyond the lower bound of x and
\* beyond the upper bound of z
C19_Witness ==
    /\ player.m_playerRoot
    /\ moved = << -1, 1 >>
    /\ player.x < 0 /\ player.z > 0

\* C20: the sun intensity 0.1 + 2.2 * clamp((direction.y - 0.02) / 0.35, 0, 1)^2
\* is monotonically non-decreasing in direction.y over [-1, 1]: the
\* intensity at a direction.y is at least the intensity at every lower one
C20_IntensityMonotone ==
    sunProbe # << >> => sunProbe.highest <= sunProbe.light.intensity

\* C20 witness: the sweep has reached direction.y = 1 and the intensity has
\* risen from the night's 0.1 to the day's 0.1 + 2.2
C20_Witness ==
    /\ sunProbe # << >>
    /\ sunProbe.y = FLit(1, 1)
    /\ sunProbe.highest > FLit(1, 10)
    /\ sunProbe.light.intensity = FAdd(FLit(1, 10), FLit(22, 10))

\* m_gpu holds one record per live particle, in the vector order, with the
\* seed and the kind of the particle
GpuMirrorsLiveSet ==
    /\ Len(m_gpu) = Len(m_particles)
    /\ \A k \in 1..Len(m_gpu) :
         /\ m_gpu[k].seed = m_particles[k].seed
         /\ m_gpu[k].kind = KindIndex(m_particles[k].kind)

\* C21: the GPU instance array holds exactly one record per live particle, in
\* the same order and with that particle's kind and seed; its length never
\* exceeds the number of records the instance buffer was allocated for; and
\* render() draws exactly that many instances, each read from the buffer as
\* the preceding update built it.
C21_GpuMatchesLiveSet ==
    /\ GpuMirrorsLiveSet
    /\ Len(m_gpu) <= m_vboInst.capacity
    /\ drawn # NoDraw => drawn.count = Len(m_gpu) /\ drawn.read = m_gpu

\* after an eviction, render() has just drawn as many instances as the
\* buffer holds, of different kind and seed
C21_Witness ==
    /\ lastCall.op = "render"
    /\ evictions # {}
    /\ drawn.count = m_vboInst.capacity
    /\ drawn.read[1].kind # drawn.read[2].kind
    /\ drawn.read[1].seed # drawn.read[2].seed

\* C26: update(dt, now) with dt > 0.05 has exactly the effect of
\* update(0.05, now): every step of such a call is a step of the capped call,
\* with the same accumulators, the same live set with the same lives, and as
\* many spawns as the rates give in 0.05 s.
C26_LongFrameActsAsCappedStep ==
    [][ \A dt \in RenderDtValues, now \in NowValues :
          (dt > MaxStep /\ lastCall' = CallOf("update", dt, now, 0)
                        /\ CallUpdate(dt, now)) =>
              /\ ParticleUpdateOf(MaxStep, now, PairedDraws)
              /\ spawnCount' - spawnCount = Len(SpawnKinds(MaxStep)) ]_vars

\* an update with a frame time above the cap has spawned particles and aged
\* those that were live by the cap
C26_Witness ==
    /\ lastCall.op = "update"
    /\ lastCall.dt > MaxStep
    /\ lastDt = MaxStep
    /\ spawnCount > Len(m_particles)
    /\ \E k \in 1..Len(m_particles) :
         m_particles[k].life = FSub(FSub(m_particles[k].life0, MaxStep), MaxStep)

\* C27: after render() returns, GL_BLEND, GL_DEPTH_TEST and GL_CULL_FACE are
\* each enabled or disabled as they were when render() was called, whatever
\* that was and whether or not render() drew.
C27_RenderRestoresEnableFlags ==
    [][ (lastCall' = CallOf("render", 0, 0, 0) /\ CallRender) => glCaps' = glCaps ]_vars

\* render() has just drawn while face culling was enabled and blending and
\* the depth test were not
C27_Witness ==
    /\ lastCall.op = "render"
    /\ drawn # NoDraw
    /\ glCaps = [ blend |-> FALSE, depth |-> FALSE, cull |-> TRUE ]

\* C28: update(dt, now) with dt <= 0 changes nothing: the live set, the three
\* emission accumulators, the stored simulation time, the GPU instance array
\* and the instance buffer are left as they were.
C28_NonPositiveDtChangesNothing ==
    [][ \A dt \in RenderDtValues, now \in NowValues :
          (dt <= 0 /\ lastCall' = CallOf("update", dt, now, 0) /\ CallUpdate(dt, now)) =>
              UNCHANGED << m_particles, m_flameAcc, m_emberAcc, m_glowAcc, m_timeNow,
                           m_gpu, m_vboInst >> ]_vars

\* update() has just returned early, on a live set and accumulators that are
\* not empty and with a clock reading other than the stored time
C28_Witness ==
    /\ lastCall.op = "update"
    /\ lastCall.dt <= 0
    /\ lastCall.now # m_timeNow
    /\ m_particles # << >>
    /\ m_gpu # << >>
    /\ m_glowAcc # 0

\* C29: after init(..., maxParticles) the capacity is the larger of the floor
\* and maxParticles; while the system is initialised the live set is bounded
\* by the capacity and the instance buffer is allocated for exactly that
\* many records.
C29_CapacityIsFloorOrArgument ==
    /\ lastCall.op = "init" =>
         /\ m_maxParticles >= MinParticles
         /\ m_maxParticles >= lastCall.maxParticles
         /\ m_maxParticles \in { MinParticles, lastCall.maxParticles }
    /\ m_maxParticles > 0 =>
         /\ Len(m_particles) <= m_maxParticles
         /\ m_vboInst.name # 0
         /\ m_vboInst.capacity = m_maxParticles

\* after an init() with an argument below the floor, the live set has filled
\* the capacity of the floor and a spawn has evicted
C29_Witness ==
    /\ m_maxParticles = MinParticles
    /\ m_vboInst.capacity = MinParticles
    /\ Len(m_particles) = MinParticles
    /\ evictions # {}

\* C30: spawn() evicts only from a non-empty live set: in every call order of
\* init, update and shutdown no eviction is attempted while the live set is
\* empty (an eviction from the empty live set is logged with victim 0).
C30_NoEvictionFromEmptyLiveSet ==
    \A e \in evictions : e.victim # 0

\* the fractions along a shared edge at which the two cells are compared
EdgeFractions == { 0, FLit(1, 4), FLit(1, 2), FLit(1, 1) }

\* the difference between GetHeight's blends of the cells (x0, z0) and
\* (x0 + 1, z0) at the point of their shared edge at the fraction t: the first
\* has tx = 1 there and the second tx = 0
EdgeJumpX(T, x0, z0, t) ==
    Abs(GetHeightCell(T, IntToFloat(x0 + 1), FAdd(IntToFloat(z0), t), x0, z0).value
        - GetHeightCell(T, IntToFloat(x0 + 1), FAdd(IntToFloat(z0), t), x0 + 1, z0).value)

\* the same for the cells (x0, z0) and (x0, z0 + 1)
EdgeJumpZ(T, x0, z0, t) ==
    Abs(GetHeightCell(T, FAdd(IntToFloat(x0), t), IntToFloat(z0 + 1), x0, z0).value
        - GetHeightCell(T, FAdd(IntToFloat(x0), t), IntToFloat(z0 + 1), x0, z0 + 1).value)

\* the differences at the shared edges of all pairs of adjacent cells of T
EdgeJumps(T) ==
    { EdgeJumpX(T, x0, z0, t) :
        x0 \in 0..(T.m_widthVerts - 3), z0 \in 0..(T.m_depthVerts - 2), t \in EdgeFractions }
    \cup { EdgeJumpZ(T, x0, z0, t) :
        x0 \in 0..(T.m_widthVerts - 2), z0 \in 0..(T.m_depthVerts - 3), t \in EdgeFractions }

MaxAbsHeight(T) ==
    IF T.m_heights = << >> THEN 0
    ELSE CHOOSE a \in { Abs(T.m_heights[k]) : k \in DOMAIN T.m_heights } :
             \A k \in DOMAIN T.m_heights : Abs(T.m_heights[k]) <= a

\* every difference of two heights that are neighbours along a row or a
\* column of T is a float
ExactSlopes(T) ==
    /\ \A x \in 0..(T.m_widthVerts - 2), z \in 0..(T.m_depthVerts - 1) :
         HeightsAt(T, x + 1 + z * T.m_widthVerts) - HeightsAt(T, x + z * T.m_widthVerts)
             = FSub(HeightsAt(T, x + 1 + z * T.m_widthVerts),
                    HeightsAt(T, x + z * T.m_widthVerts))
    /\ \A x \in 0..(T.m_widthVerts - 1), z \in 0..(T.m_depthVerts - 2) :
         HeightsAt(T, x + (z + 1) * T.m_widthVerts) - HeightsAt(T, x + z * T.m_widthVerts)
             = FSub(HeightsAt(T, x + (z + 1) * T.m_widthVerts),
                    HeightsAt(T, x + z * T.m_widthVerts))

UnitLengthError(v) == Abs(v[1] * v[1] + v[2] * v[2] + v[3] * v[3] - Unit * Unit)

\* C23: GetNormal(x, z) returns a vector of unit length, to the rounding of
\* its three divisions and of the length (its squared length is within eight
\* float spacings of 1), for every query point; when the four heights it
\* samples are equal it returns exactly (0, 1, 0).
C23_NormalIsUnit ==
    lastQuery.op = "GetNormal" =>
        /\ UnitLengthError(lastQuery.value) <= 8 * Unit * Ulp(Unit)
        /\ lastQuery.flat => lastQuery.value = << 0, FLit(1, 1), 0 >>

\* GetNormal on a built terrain returned a normal tilted along both axes
\* whose length is rounded
C23_Witness ==
    /\ lastQuery.op = "GetNormal"
    /\ lastBuild[1] # << >>
    /\ ~lastQuery.flat
    /\ lastQuery.value[1] # 0 /\ lastQuery.value[3] # 0
    /\ UnitLengthError(lastQuery.value) > 0

(***************************************************************************)
(* Input and Transform specifications and their claims.                    *)
(***************************************************************************)
NextInput ==
    \/ \E yoffset \in ScrollOffsets : ScrollCallback(yoffset)
    \/ consumeScrollY

SpecInput == Init /\ [][NextInput]_vars

NextTransform ==
    \/ \E n \in Nodes, newParent \in 0 .. MaxNodes : setParent(n, newParent)
    \/ \E n \in Nodes, p \in PositionValues : setLocalPosition(n, p)
    \/ \E n \in Nodes, q \in RotationValues : setLocalRotation(n, q)
    \/ \E n \in Nodes, s \in ScaleValues : setLocalScale(n, s)
    \/ \E n \in Nodes : ReadWorldMatrix(n)

SpecTransform == Init /\ [][NextTransform]_vars

RECURSIVE SumFrom(_, _)
\* the offsets of seq added to acc one after the other, as doubles
SumFrom(acc, seq) ==
    IF seq = << >> THEN acc ELSE SumFrom(FAdd(acc, Head(seq)), Tail(seq))

\* C24: consumeScrollY() returns the sum of the scroll offsets delivered since
\* the previous consume and leaves the accumulator at 0: the accumulator
\* always holds exactly the offsets not yet consumed, so every offset is
\* returned once, and a consume with no new event returns 0.
C24_ConsumeReturnsPendingSum ==
    /\ m_scrollY = SumFrom(0, pendingScroll)
    /\ lastConsume.value = SumFrom(0, lastConsume.offsets)
    /\ lastConsume.offsets = << >> => lastConsume.value = 0

\* a consume that returned several events, with a new event already waiting
C24_Witness ==
    /\ lastConsume.done
    /\ Len(lastConsume.offsets) >= 2
    /\ lastConsume.value # 0
    /\ pendingScroll # << >>

\* what worldMatrix() of node n returns in the current state
WorldOf(n) == worldMatrix(transforms, n).value

=============================================================================
